---- MODULE Spec2Model ----
(***************************************************************************)
(* Workflow engine of cv_creator.py: validate_config, the execution loop   *)
(* of main(), the step executors and render_prompt; the request of         *)
(* gemini_cli.py as far as llm_task reads its answer.                      *)
(*                                                                         *)
(* A step is a dict, held as a record of the keys it has: every step has   *)
(*   [step, type, dependencies, variables]                                 *)
(* as read by validate_config and the loop, and a step may have the keys   *)
(* that its executor reads with step.get(key, default): prompt_variables,  *)
(* llm, output_variable, to_write_variables, output_file, list_variable,   *)
(* actions.  A missing name (None or '') is NoName.  The 'dependencies'    *)
(* and 'variables' entries carry is_list for the outcome of                *)
(* isinstance(..., list).  The dependencies list is held as the set of its *)
(* entries: the code only ever tests its entries for membership, one by    *)
(* one.  The variables list is held as a sequence.                         *)
(*                                                                         *)
(* A text is a sequence of symbols, "{" and "}" among them.  A value of    *)
(* the variable store is a record [kind, s, n].  What requests.post does   *)
(* is an input of the step that calls it.                                  *)
(*                                                                         *)
(* Of translate_md.py: translate_block with its retries, and process_file  *)
(* with the jobs of its thread pool.  Of transcribe.py: the threads that   *)
(* main() starts and the output file of each.  A thread or a job moves by  *)
(* a step of its own, in any order with the others.                        *)
(***************************************************************************)
EXTENDS Integers, Sequences, FiniteSets, TLC

\* ------------------------------------------------------------------------
\* Bounds of the model
\* ------------------------------------------------------------------------
MaxCfgSteps == 2      \* longest workflow given to main()
MaxLoopSteps == 3     \* longest step list given to the execution loop alone
MaxDeps == 1          \* most dependencies of a step of a config of main()
MaxLoopDeps == 2      \* most dependencies of a step given to the loop alone
MaxVars == 2          \* most variables of a write_file step called alone
MaxPieces == 2        \* most pieces of a prompt template
MaxRunSteps == 3      \* longest workflow of a run with each kind of executor
MaxSections == 2      \* most sections of a details config
MaxItems == 2         \* longest JSON array given to json_iterator alone
MaxRetries == 3       \* largest retry_attempts of a translator config
MaxBlocks == 3        \* most blocks of a document given to process_file
MaxWorkers == 2       \* largest max_workers of a translator config
MaxInputs == 2        \* most input files given to transcribe.py

NoName == ""

\* cv_creator.py:34-39
recognized_types ==
    {"llm_task", "download_document", "gather_inputs", "json_iterator", "write_file"}

CfgNames == {NoName, "A", "B"}
CfgTypes == {"llm_task", "bogus"}
CfgDepNames == {"A", "B"}
VarNames == {"x"}
LoopNames == <<"A", "B", "C", "D", "E">>
LoopDepNames == {"A", "B", "C", "Z"}
LoopTypes == {"write_file", "bogus"}

Range(s) == {s[k] : k \in DOMAIN s}

SeqsUpTo(S, n) == UNION {[1..k -> S] : k \in 0..n}

SetsUpTo(S, n) == {D \in SUBSET S : Cardinality(D) <= n}

Min(a, b) == IF a < b THEN a ELSE b

\* F of a value that is computed once, however often F uses it
Once(F(_), value) == CHOOSE out \in {F(v) : v \in {value}} : TRUE

\* ------------------------------------------------------------------------
\* validate_config (cv_creator.py:22-92)
\* ------------------------------------------------------------------------

\* line 52: prev_steps = set()
InitialPrevSteps_AllNames(steps) == {steps[k].step : k \in DOMAIN steps}

InitialPrevSteps(steps) == {}

\* line 75: "if dep not in prev_steps" (negated).  step_names already holds
\* the name of the step under validation (line 60), prev_steps does not yet
\* (line 90).
DependencyFound_InStepNames(dep, prev_steps, step_names) == dep \in step_names

DependencyFound(dep, prev_steps, step_names) == dep \in prev_steps

\* lines 80-89.  Line 80 rebinds the local name 'variables' (the set of line
\* 51) to the step's own list, so the test of line 86 looks every entry up in
\* the list it is taken from.  Line 89 is never reached.
VariablesNotUnique(variables) ==
    \E k \in DOMAIN variables : \E j \in DOMAIN variables :
        variables[j] = variables[k]

\* lines 55-89: the checks made on one step, in the order of the code; the
\* result is the diagnostic printed, "none" if the step passes.
StepCheck_TypeFirst(step, step_names, prev_steps) ==
    IF step.type \notin recognized_types THEN "type"
    ELSE IF step.step = NoName \/ step.step \in step_names THEN "name"
    ELSE IF ~step.dependencies.is_list THEN "deps_not_list"
    ELSE IF \E dep \in step.dependencies.items :
              ~DependencyFound(dep, prev_steps, step_names \cup {step.step})
         THEN "dependency"
    ELSE IF ~step.variables.is_list THEN "vars_not_list"
    ELSE IF VariablesNotUnique(step.variables.items) THEN "variable"
    ELSE "none"

StepCheck(step, step_names, prev_steps) ==
    IF step.step = NoName \/ step.step \in step_names THEN "name"
    ELSE IF step.type \notin recognized_types THEN "type"
    ELSE IF ~step.dependencies.is_list THEN "deps_not_list"
    ELSE IF \E dep \in step.dependencies.items :
              ~DependencyFound(dep, prev_steps, step_names \cup {step.step})
         THEN "dependency"
    ELSE IF ~step.variables.is_list THEN "vars_not_list"
    ELSE IF VariablesNotUnique(step.variables.items) THEN "variable"
    ELSE "none"

\* lines 54-92: the loop over the steps.  at is the 1-based position of the
\* step (idx + 1 in the code).
RECURSIVE ValidateSteps(_, _, _, _)
ValidateSteps(steps, at, step_names, prev_steps) ==
    IF at > Len(steps) THEN [ok |-> TRUE, reason |-> "none", at |-> 0]
    ELSE LET why == StepCheck(steps[at], step_names, prev_steps)
         IN  IF why # "none" THEN [ok |-> FALSE, reason |-> why, at |-> at]
             ELSE ValidateSteps(steps, at + 1,
                                step_names \cup {steps[at].step},
                                prev_steps \cup {steps[at].step})

\* lines 41-92.  The result carries the verdict, the diagnostic printed and
\* the position of the step it is about (0 if none).
validate_config(config) ==
    IF ~config.is_dict
    THEN [ok |-> FALSE, reason |-> "not_dict", at |-> 0]
    ELSE IF config.workflow.kind # "list" \/ config.workflow.items = <<>>
    THEN [ok |-> FALSE, reason |-> "workflow", at |-> 0]
    ELSE ValidateSteps(config.workflow.items, 1, {},
                       InitialPrevSteps(config.workflow.items))

\* ------------------------------------------------------------------------
\* render_prompt (cv_creator.py:16-20)
\* ------------------------------------------------------------------------
\* A text is a sequence of symbols: the braces "{" and "}" and words (a name,
\* a digit, a run of other characters).  A value of the store is a string
\* or an integer.
Txt(s) == [kind |-> "str", s |-> s, n |-> 0]

Num(n) == [kind |-> "int", s |-> <<>>, n |-> n]

DigitOf == <<"0", "1", "2", "3", "4", "5", "6", "7", "8", "9">>

RECURSIVE Digits(_)
Digits(n) ==
    IF n < 10 THEN <<DigitOf[n + 1]>>
    ELSE Digits(n \div 10) \o <<DigitOf[(n % 10) + 1]>>

\* line 19: str(v)
Str(v) == IF v.kind = "str" THEN v.s ELSE Digits(v.n)

RECURSIVE Flatten(_)
Flatten(pieces) ==
    IF pieces = <<>> THEN <<>> ELSE Head(pieces) \o Flatten(Tail(pieces))

\* line 19: f'{{{{{k}}}}}', the text {{k}}
Placeholder(k) == <<"{", "{", k, "}", "}">>

\* str.replace: the occurrences of old, found from the left and not
\* overlapping, are replaced by new; what is put in is not searched again
RECURSIVE Replace(_, _, _)
Replace(s, old, new) ==
    IF Len(s) < Len(old) THEN s
    ELSE IF SubSeq(s, 1, Len(old)) = old
    THEN new \o Replace(SubSeq(s, Len(old) + 1, Len(s)), old, new)
    ELSE <<Head(s)>> \o Replace(Tail(s), old, new)

\* line 19: the replacement of one pass of the loop
ReplaceKey(prompt, k, v) == Replace(prompt, Placeholder(k), Str(v))

\* lines 18-20: one replacement for each item of the context, in the order
\* of the dict, each on the result of the one before.  The context is the
\* sequence of the items of the dict.
RECURSIVE render_prompt(_, _)
render_prompt(prompt, context) ==
    IF context = <<>> THEN prompt
    ELSE render_prompt(ReplaceKey(prompt, Head(context).k, Head(context).v),
                       Tail(context))

\* ------------------------------------------------------------------------
\* The response of the API (gemini_cli.py:59-79) and the text llm_task takes
\* from it (cv_creator.py:197-224)
\* ------------------------------------------------------------------------
\* Python's None, and str(None)
None == [kind |-> "null", s |-> <<>>, n |-> 0]

StrOfNone == <<"None">>

\* A JSON body is described by what the code looks at.  Of a member:
\* "absent" (no such key), "falsy" (a value Python takes for false: null, an
\* empty list), "nonlist" / "nondict" (a true value of another type, here a
\* string), "list" (a list that is not empty, with its first element) or
\* "dict".  Of the first element of 'parts': a dict (with a 'text' member or
\* not), a string or a list (holding "text" or not), or something else (a
\* number).
Part(kind, has_text, text) == [kind |-> kind, has_text |-> has_text, text |-> text]

NoPart == Part("other", FALSE, None)

Parts(kind, first) == [kind |-> kind, first |-> first]

Content(kind, parts) == [kind |-> kind, parts |-> parts]

Element(kind, content) == [kind |-> kind, content |-> content]

Candidates(kind, first) == [kind |-> kind, first |-> first]

Body(kind, candidates, parts, text) ==
    [kind |-> kind, candidates |-> candidates, parts |-> parts, text |-> text]

NoParts == Parts("absent", NoPart)

NoContent == Content("absent", NoParts)

NoElement == Element("other", NoContent)

NoCandidates == Candidates("absent", NoElement)

\* what is not a JSON object: a JSON value of another type, or the
\* response_json of lines 203 and 205 when there is no JSON at all
NoBody == Body("other", NoCandidates, NoParts, [present |-> FALSE, value |-> None])

\* json.dumps, token by token
Quoted(word) == <<"\"" \o word \o "\"">>

JsonValue(v) ==
    IF v.kind = "null" THEN <<"null">>
    ELSE IF v.kind = "int" THEN Digits(v.n)
    ELSE <<"\"">> \o v.s \o <<"\"">>

RECURSIVE JsonMembers(_)
JsonMembers(members) ==
    IF members = <<>> THEN <<>>
    ELSE IF Len(members) = 1 THEN Head(members)
    ELSE Head(members) \o <<",">> \o JsonMembers(Tail(members))

JsonObject(members) == <<"{">> \o JsonMembers(members) \o <<"}">>

Member(key, text) == <<Quoted(key) \o <<":">> \o text>>

JsonPart(p) ==
    IF p.kind = "dict"
    THEN JsonObject(IF p.has_text THEN Member("text", JsonValue(p.text)) ELSE <<>>)
    ELSE IF p.kind = "str"
    THEN (IF p.has_text THEN Quoted("text") ELSE Quoted("s"))
    ELSE IF p.kind = "list"
    THEN <<"[">> \o (IF p.has_text THEN Quoted("text") ELSE <<>>) \o <<"]">>
    ELSE <<"5">>

JsonParts(parts) ==
    IF parts.kind = "absent" THEN <<>>
    ELSE Member("parts",
                IF parts.kind = "falsy" THEN <<"[", "]">>
                ELSE IF parts.kind = "nonlist" THEN Quoted("p")
                ELSE <<"[">> \o JsonPart(parts.first) \o <<"]">>)

JsonContent(content) ==
    IF content.kind = "absent" THEN <<>>
    ELSE Member("content",
                IF content.kind = "falsy" THEN <<"null">>
                ELSE IF content.kind = "nondict" THEN Quoted("c")
                ELSE JsonObject(JsonParts(content.parts)))

JsonElement(element) ==
    IF element.kind = "dict" THEN JsonObject(JsonContent(element.content))
    ELSE Quoted("e")

JsonCandidates(candidates) ==
    IF candidates.kind = "absent" THEN <<>>
    ELSE Member("candidates",
                IF candidates.kind = "falsy" THEN <<"[", "]">>
                ELSE IF candidates.kind = "nonlist" THEN Quoted("c")
                ELSE <<"[">> \o JsonElement(candidates.first) \o <<"]">>)

JsonText(text) ==
    IF text.present THEN Member("text", JsonValue(text.value)) ELSE <<>>

JsonBody(body) ==
    IF body.kind = "dict"
    THEN JsonObject(JsonCandidates(body.candidates) \o JsonParts(body.parts)
                    \o JsonText(body.text))
    ELSE <<"[", "]">>

\* gemini_cli.py:59-75: the 'response' of the result is the text of the
\* body, whatever the status, or None when requests.post raised
TransportFailure == [kind |-> "none", raw |-> <<>>, parses |-> FALSE, json |-> NoBody]

NotJson == [kind |-> "str", raw |-> <<"<html>">>, parses |-> FALSE, json |-> NoBody]

ResponseText(body) ==
    [kind |-> "str", raw |-> JsonBody(body), parses |-> TRUE, json |-> body]

\* lines 199-205
response_json(response) ==
    IF response.kind = "str" /\ response.parses THEN response.json ELSE NoBody

\* lines 207-216: the value at candidates[0].content.parts[0].text, None
\* when the test of one of the ifs fails; the calls of .get on what is not a
\* dict, of 'in' on a number and of ['text'] on a string or a list raise
Found(value) == [raised |-> FALSE, value |-> value, exception |-> ""]

Raised(exception) == [raised |-> TRUE, value |-> None, exception |-> exception]

candidates_text(json) ==
    IF json.kind # "dict" THEN Found(None)
    ELSE LET candidates == json.candidates
         IN  IF candidates.kind # "list" THEN Found(None)
             ELSE IF candidates.first.kind # "dict" THEN Raised("AttributeError")
             ELSE LET content == candidates.first.content
                  IN  IF content.kind # "dict" THEN Found(None)
                      ELSE LET parts == content.parts
                           IN  IF parts.kind # "list" THEN Found(None)
                               ELSE IF parts.first.kind = "other"
                               THEN Raised("TypeError")
                               ELSE IF ~parts.first.has_text THEN Found(None)
                               ELSE IF parts.first.kind = "dict"
                               THEN Found(parts.first.text)
                               ELSE Raised("TypeError")

\* line 224: str(response)
StrOfResponse(response) ==
    IF response.kind = "none" THEN StrOfNone ELSE response.raw

\* lines 217-224.  The response is a string or None, so the two tests of
\* isinstance(response, dict) fail and the text is str(response).
text_value(response) ==
    LET found == candidates_text(response_json(response))
    IN  IF found.raised THEN found
        ELSE IF found.value # None THEN found
        ELSE Found(Txt(StrOfResponse(response)))

\* ------------------------------------------------------------------------
\* The variable store and the step executors (cv_creator.py:120-282)
\* ------------------------------------------------------------------------
\* the empty string, Python's '': what a key that is absent is read as,
\* and what "not value" takes like it
Unset == ""

\* the dict {}
NoKeys == [k \in {} |-> Unset]

\* dict.get(key, default)
Get(dict, key, default) == IF key \in DOMAIN dict THEN dict[key] ELSE default

\* line 177: step.get('prompt_variables', [])
PromptVariables(step) == Get(step, "prompt_variables", <<>>)

\* lines 181-190: step.get('llm', {}).get(key, '')
LlmKey(step, key, default) == Get(Get(step, "llm", NoKeys), key, default)

\* variables[key] = value, and the same on a store emptied first
Put_Alone(store, key, value) == [k \in {key} |-> value]

Put(store, key, value) ==
    [k \in (DOMAIN store) \cup {key} |-> IF k = key THEN value ELSE store[k]]

\* What an error says: the exception and the text it is raised with, the
\* steps that its message names and the variables that its message names.
Message(exception, text, step_names, names) ==
    [exception |-> exception, text |-> text, steps |-> step_names,
     names |-> names]

NoError == Message("", "", <<>>, <<>>)

\* What a call of an executor leaves: whether it returned or raised, the
\* store, the error raised, the prompts of the requests sent to the API and
\* the files written; and whether a call it made of the API or of the link
\* to download has failed.
Result(outcome, store, error, sent, files) ==
    [outcome |-> outcome, variables |-> store, error |-> error,
     sent |-> sent, files |-> files, call_failed |-> FALSE]

CallFailed(result) == [result EXCEPT !.call_failed = TRUE]

\* gemini_cli.py:59-75: requests.post has raised, or the API has answered
\* with a status of failure
PostFailed(post) == post.raised \/ post.status_code # 200

\* gemini_cli.py:59-75: what send_gemini_request returns for what
\* requests.post did; an exception of requests.post is caught
send_gemini_request(post) ==
    IF post.raised
    THEN [status_code |-> 0, response |-> TransportFailure,
          errors |-> <<"post">>]
    ELSE [status_code |-> post.status_code, response |-> post.body,
          errors |-> <<>>]

\* line 180: {var: variables.get(var, '') for var in required_variables};
\* the items of a dict are in the order the keys were first put in
RECURSIVE ContextOf(_, _, _)
ContextOf(required_variables, store, seen) ==
    IF required_variables = <<>> THEN <<>>
    ELSE LET var == Head(required_variables)
         IN  (IF var \in seen THEN <<>> ELSE <<[k |-> var, v |-> store[var]]>>)
             \o ContextOf(Tail(required_variables), store, seen \cup {var})

\* line 183
OutputVariable(step) == Get(step, "output_variable", "llm_response")

\* lines 177-191: the error llm_task raises before it sends a request, and
\* the same without the test of the model
llm_task_refuses_NoModelTest(step, store) ==
    IF \E i \in DOMAIN PromptVariables(step) :
           PromptVariables(step)[i] \notin DOMAIN store
    THEN Message("ValueError", "LLM task requires variables", <<>>,
                 PromptVariables(step))
    ELSE IF LlmKey(step, "endpoint", Unset) = Unset
    THEN Message("ValueError", "LLM task must specify an endpoint", <<>>, <<>>)
    ELSE NoError

llm_task_refuses(step, store) ==
    IF \E i \in DOMAIN PromptVariables(step) :
           PromptVariables(step)[i] \notin DOMAIN store
    THEN Message("ValueError", "LLM task requires variables", <<>>,
                 PromptVariables(step))
    ELSE IF LlmKey(step, "endpoint", Unset) = Unset
    THEN Message("ValueError", "LLM task must specify an endpoint", <<>>, <<>>)
    ELSE IF LlmKey(step, "model", Unset) = Unset
    THEN Message("ValueError", "LLM task must specify the model", <<>>, <<>>)
    ELSE NoError

\* lines 169-225.  post is what requests.post does with the request.
llm_task(step, store, files, post) ==
    LET refused == llm_task_refuses(step, store)
    IN  IF refused # NoError THEN Result("raised", store, refused, <<>>, files)
        ELSE LET rendered == render_prompt(LlmKey(step, "prompt", <<>>),
                                 ContextOf(PromptVariables(step), store, {}))
                 api_result == send_gemini_request(post)
                 found == text_value(api_result.response)
                 result ==
                     IF found.raised
                     THEN Result("raised", store,
                                 Message(found.exception, "", <<>>, <<>>),
                                 <<rendered>>, files)
                     ELSE Result("returned",
                                 Put(store, OutputVariable(step), found.value),
                                 NoError, <<rendered>>, files)
             IN  IF PostFailed(post) THEN CallFailed(result) ELSE result

\* line 162: link.startswith('http')
StartsWithHttp(link) == link # <<>> /\ Head(link) = "http"

\* lines 155-167.  fetch is what requests.get does.
download_document(store, files, fetch) ==
    LET link == IF "jd_link" \in DOMAIN store THEN store["jd_link"] ELSE Txt(<<>>)
    IN  IF link.kind # "str"
        THEN Result("raised", store, Message("AttributeError", "", <<>>, <<>>),
                    <<>>, files)
        ELSE IF ~StartsWithHttp(link.s)
        THEN Result("raised", store,
                    Message("ValueError", "Invalid URL for download_document",
                            <<>>, <<>>), <<>>, files)
        ELSE IF fetch.raised
        THEN CallFailed(Result("raised", store,
                               Message("RequestException", "", <<>>, <<>>),
                               <<>>, files))
        ELSE IF fetch.status_code # 200
        THEN CallFailed(Result("raised", store,
                               Message("ValueError", "Failed to download document",
                                       <<>>, <<>>), <<>>, files))
        ELSE Result("returned", Put(store, "jd_html", Txt(fetch.body)), NoError,
                    <<>>, files)

\* lines 143-149: an input file of a section, there with its text or not
\* there
InputFile(found, text) == [found |-> found, text |-> text]

\* lines 137-141: a section of cv_structure: the name under 'step' (NoName
\* is None), its input files, its description and its fixed text
Section(step_name, input_files, description, fixed) ==
    [step |-> step_name, input_files |-> input_files,
     description |-> description, fixed |-> fixed]

\* lines 130-132: what the details config holds, if it can be read
Details(readable, cv_structure) ==
    [readable |-> readable, cv_structure |-> cv_structure]

\* line 146: os.path.isfile fails on some input file of the section
FileMissing(section) ==
    \E i \in DOMAIN section.input_files : ~section.input_files[i].found

\* lines 120-153.  details is what the details config holds.  Line 151
\* assigns to an item of variables[step_name]: a KeyError when the store has
\* no such key, a TypeError when the value is a string, a number or None.
gather_inputs(step, args, store, files, details) ==
    LET with_link == Put(store, "jd_link", Txt(args.jd))
    IN  IF ~details.readable
        THEN Result("raised", with_link, Message("OSError", "", <<>>, <<>>),
                    <<>>, files)
        ELSE IF details.cv_structure = <<>>
        THEN Result("returned", with_link, NoError, <<>>, files)
        ELSE LET section == Head(details.cv_structure)
             IN  IF FileMissing(section)
                 THEN Result("raised", with_link,
                             Message("FileNotFoundError",
                                     "Section input file not found", <<>>, <<>>),
                             <<>>, files)
                 ELSE IF section.step \notin DOMAIN with_link
                 THEN Result("raised", with_link,
                             Message("KeyError", "", <<>>, <<>>), <<>>, files)
                 ELSE Result("raised", with_link,
                             Message("TypeError", "", <<>>, <<>>), <<>>, files)

\* line 270: the first of the variables to write that is not in the store,
\* or is None; 0 if there is none.  And the same without the test for None.
RECURSIVE FirstNotSet_NoneIsSet(_, _, _)
FirstNotSet_NoneIsSet(required_variables, store, i) ==
    IF i > Len(required_variables) THEN 0
    ELSE IF required_variables[i] \notin DOMAIN store THEN i
    ELSE FirstNotSet_NoneIsSet(required_variables, store, i + 1)

RECURSIVE FirstNotSet(_, _, _)
FirstNotSet(required_variables, store, i) ==
    IF i > Len(required_variables) THEN 0
    ELSE IF \/ required_variables[i] \notin DOMAIN store
            \/ store[required_variables[i]] = None
    THEN i
    ELSE FirstNotSet(required_variables, store, i + 1)

\* lines 279-282: what is written before the end of the list, or before the
\* first value that is not a string (a TypeError of '+')
RECURSIVE Written(_, _)
Written(required_variables, store) ==
    IF required_variables = <<>> THEN <<>>
    ELSE LET value == store[Head(required_variables)]
         IN  IF value.kind # "str" THEN <<>>
             ELSE value.s \o <<"\n\n">> \o Written(Tail(required_variables), store)

\* line 279: what a file holds once open(out_path, 'w') has succeeded, and
\* the same for a file opened to append
Truncated_Append(files, out_path) ==
    IF out_path \in DOMAIN files THEN files[out_path] ELSE <<>>

Truncated(files, out_path) == <<>>

\* lines 263-282.  opened is whether open(out_path, 'w') succeeds.
write_file(step, args, store, files, opened) ==
    LET required_variables == Get(step, "to_write_variables", <<>>)
        missing == FirstNotSet(required_variables, store, 1)
        out_path == Get(step, "output_file", args.output)
    IN  IF missing # 0
        THEN Result("raised", store,
                    Message("ValueError", "Required variable is not set", <<>>,
                            <<required_variables[missing]>>), <<>>, files)
        ELSE IF out_path = Unset
        THEN Result("raised", store,
                    Message("ValueError", "Output file path not specified",
                            <<>>, <<>>), <<>>, files)
        ELSE IF ~opened
        THEN Result("raised", store, Message("OSError", "", <<>>, <<>>),
                    <<>>, files)
        ELSE IF \E i \in DOMAIN required_variables :
                    store[required_variables[i]].kind # "str"
        THEN Result("raised", store, Message("TypeError", "", <<>>, <<>>),
                    <<>>, Put(files, out_path,
                              Truncated(files, out_path)
                                  \o Written(required_variables, store)))
        ELSE Result("returned", store, NoError, <<>>,
                    Put(files, out_path,
                        Truncated(files, out_path)
                            \o Written(required_variables, store)))

IsList(items) == [is_list |-> TRUE, items |-> items]

\* json.loads of the text of a list of numbers of one digit: the items, or
\* no list at all
IsDigit(token) == \E d \in DOMAIN DigitOf : DigitOf[d] = token

DigitValue(token) == (CHOOSE d \in DOMAIN DigitOf : DigitOf[d] = token) - 1

\* lines 241-244: what is no list is refused, and the same taken as a list
\* without items
NotAList_EmptyList == [is_list |-> TRUE, items |-> <<>>]

NotAList == [is_list |-> FALSE, items |-> <<>>]

RECURSIVE ParseItems(_)
ParseItems(tokens) ==
    IF ~IsDigit(Head(tokens)) THEN NotAList
    ELSE IF Len(tokens) = 1 THEN IsList(<<Num(DigitValue(Head(tokens)))>>)
    ELSE IF tokens[2] # "," \/ Len(tokens) = 2 THEN NotAList
    ELSE LET rest == ParseItems(SubSeq(tokens, 3, Len(tokens)))
         IN  IF rest.is_list
             THEN IsList(<<Num(DigitValue(Head(tokens)))>> \o rest.items)
             ELSE NotAList

ParseArray(value) ==
    IF value.kind # "str" \/ Len(value.s) < 2 THEN NotAList
    ELSE IF Head(value.s) # "[" \/ value.s[Len(value.s)] # "]" THEN NotAList
    ELSE IF Len(value.s) = 2 THEN IsList(<<>>)
    ELSE ParseItems(SubSeq(value.s, 2, Len(value.s) - 1))

\* line 250
ItemOutputVariable(action) == Get(action, "output_variable", "item_output")

\* line 247
IteratorOutputVariable(step) == Get(step, "output_variable", "iterator_output")

\* '\n\n'.join(results)
RECURSIVE Join(_)
Join(results) ==
    IF results = <<>> THEN <<>>
    ELSE IF Len(results) = 1 THEN Head(results).s
    ELSE Head(results).s \o <<"\n\n">> \o Join(Tail(results))

\* lines 251-257: the items of one action, from the state the items before
\* have left.  The state holds the result so far, the results list and the
\* outcomes of requests.post not yet used.
\* lines 252-257: one item of one action.  called is what llm_task has
\* returned for the item.
AfterItem(action, state, called) ==
    LET var == ItemOutputVariable(action)
        appended == IF var \in DOMAIN called.variables
                    THEN called.variables[var] ELSE Txt(<<>>)
    IN  [result |-> [called EXCEPT
                         !.sent = state.result.sent \o called.sent,
                         !.call_failed = state.result.call_failed
                                             \/ called.call_failed],
         results |-> IF called.outcome = "returned"
                     THEN Append(state.results, appended)
                     ELSE state.results,
         posts |-> Tail(state.posts)]

RECURSIVE IterateItems(_, _, _)
IterateItems(action, items, state) ==
    IF items = <<>> \/ state.result.outcome = "raised" THEN state
    ELSE LET with_item == Put(state.result.variables, "current_item", Head(items))
         IN  Once(LAMBDA next : IterateItems(action, Tail(items), next),
                  Once(LAMBDA called : AfterItem(action, state, called),
                       llm_task(action, with_item, state.result.files,
                                Head(state.posts))))

\* lines 248-259
RECURSIVE IterateActions(_, _, _)
IterateActions(actions, items, state) ==
    IF actions = <<>> \/ state.result.outcome = "raised" THEN state
    ELSE IF Get(Head(actions), "type", Unset) # "llm_task"
    THEN [state EXCEPT
              !.result.outcome = "raised",
              !.result.error = Message("ValueError", "Unsupported action type",
                                       <<>>, <<>>)]
    ELSE Once(LAMBDA next : IterateActions(Tail(actions), items, next),
              IterateItems(Head(actions), items, state))

\* line 261: the results joined and stored, when each of them is a string
Joined(step, done) ==
    IF done.result.outcome = "raised" THEN done.result
    ELSE IF \E i \in DOMAIN done.results : done.results[i].kind # "str"
    THEN [done.result EXCEPT
              !.outcome = "raised",
              !.error = Message("TypeError", "", <<>>, <<>>)]
    ELSE [done.result EXCEPT
              !.variables = Put(done.result.variables,
                                IteratorOutputVariable(step),
                                Txt(Join(done.results)))]

\* lines 227-261.  posts is what requests.post does, call after call.  A
\* step without 'list_variable' has the test of line 235 made on a list,
\* which cannot be hashed.
json_iterator(step, store, files, posts) ==
    IF "list_variable" \notin DOMAIN step
    THEN Result("raised", store, Message("TypeError", "", <<>>, <<>>), <<>>, files)
    ELSE IF step.list_variable \notin DOMAIN store
    THEN Result("raised", store,
                Message("ValueError", "Input variable for json_iterator not found",
                        <<>>, <<step.list_variable>>), <<>>, files)
    ELSE LET json_array == ParseArray(store[step.list_variable])
         IN  IF ~json_array.is_list
             THEN Result("raised", store,
                         Message("ValueError", "Failed to parse JSON array",
                                 <<>>, <<step.list_variable>>), <<>>, files)
             ELSE Once(LAMBDA done : Joined(step, done),
                       Once(LAMBDA begun :
                                IterateActions(Get(step, "actions", <<>>),
                                               json_array.items, begun),
                            [result |-> Result("returned", store, NoError,
                                               <<>>, files),
                             results |-> <<>>, posts |-> posts]))

\* the calls of llm_task that json_iterator makes at most
CallsOf(step, store) ==
    IF "list_variable" \in DOMAIN step /\ step.list_variable \in DOMAIN store
    THEN Len(Get(step, "actions", <<>>))
             * Len(ParseArray(store[step.list_variable]).items)
    ELSE 0

\* ------------------------------------------------------------------------
\* Inputs
\* ------------------------------------------------------------------------
\* a 'dependencies' or 'variables' entry that is not a list
DepsNotAList == [is_list |-> FALSE, items |-> {}]
VarsNotAList == [is_list |-> FALSE, items |-> <<>>]

CfgDeps == {IsList(D) : D \in SetsUpTo(CfgDepNames, MaxDeps)}
\* the 'variables' lists of a step of a config of main(): no name, one name,
\* and a name twice, the repeat that validate_config looks for
CfgVars ==
    {IsList(<<>>)}
    \cup {IsList(<<name>>) : name \in VarNames}
    \cup {IsList(<<name, name>>) : name \in VarNames}

\* an 'llm' entry with an endpoint, a model and a prompt without placeholder
PlainLlm == [prompt |-> <<"Write">>, endpoint |-> "E", model |-> "M"]

\* a step with the keys that the validator and the loop read, and none of
\* the keys that only its executor reads
Step(name, type, dependencies, variables) ==
    [step |-> name, type |-> type, dependencies |-> dependencies,
     variables |-> variables]

\* the step with more keys
With(step, keys) == keys @@ step

CfgSteps ==
    {Step(name, type, dependencies, variables) :
        name \in CfgNames, type \in CfgTypes, dependencies \in CfgDeps,
        variables \in CfgVars}
    \cup {Step("A", type, DepsNotAList, IsList(<<>>)) : type \in CfgTypes}
    \cup {Step("A", type, IsList({}), VarsNotAList) : type \in CfgTypes}

Workflow(kind, items) == [kind |-> kind, items |-> items]

\* the configs given to main() that hold no step list: a YAML document that
\* is not a mapping, one without a 'workflow' key, one whose 'workflow' is
\* not a list
ConfigsWithoutList ==
    {[is_dict |-> FALSE, workflow |-> Workflow("missing", <<>>)]}
    \cup {[is_dict |-> TRUE, workflow |-> Workflow(kind, <<>>)] :
            kind \in {"missing", "other"}}

ListConfig(items) == [is_dict |-> TRUE, workflow |-> Workflow("list", items)]

\* the step lists given to the execution loop alone: the k-th step is named
\* LoopNames[k] (names are the identity of a step: executed_steps is keyed by
\* them), its dependencies are any names, of the list or not; a step of an
\* unknown type is taken without dependencies
LoopChoices ==
    [type : {"write_file"}, deps : SetsUpTo(LoopDepNames, MaxLoopDeps)]
    \cup [type : LoopTypes, deps : {{}}]

LoopSteps(f) ==
    [k \in DOMAIN f |-> Step(LoopNames[k], f[k].type, IsList(f[k].deps),
                             IsList(<<>>))]

\* the command line of main(): --jd and --output
PlainArgs == [jd |-> <<"http", "://jd">>, output |-> "results/cv_result.md"]

\* what requests.post does with a request of llm_task: it raises, or the
\* API answers with a status and a body
Post(raised, status_code, body) ==
    [raised |-> raised, status_code |-> status_code, body |-> body]

\* the text of a JSON list, as the model is asked for by the prompts that
\* feed a json_iterator
ListText == Txt(<<"[", "1", "]">>)

\* the body of an answer with a text at candidates[0].content.parts[0].text
AnswerBody(text) ==
    Body("dict",
         Candidates("list", Element("dict",
             Content("dict", Parts("list", Part("dict", TRUE, text))))),
         NoParts, [present |-> FALSE, value |-> None])

\* the body of an answer that reports a failure of the API: a JSON object
\* without candidates
FailureBody == Body("dict", NoCandidates, NoParts, [present |-> FALSE, value |-> None])

\* the body of an answer whose candidates are strings
StringCandidatesBody ==
    Body("dict", Candidates("list", NoElement), NoParts,
         [present |-> FALSE, value |-> None])

PostOutcomes ==
    {Post(TRUE, 0, TransportFailure),
     Post(FALSE, 200, ResponseText(AnswerBody(ListText))),
     Post(FALSE, 400, ResponseText(FailureBody)),
     Post(FALSE, 200, ResponseText(StringCandidatesBody))}

\* what requests.get does with the link of download_document
FetchOutcomes ==
    {[raised |-> TRUE, status_code |-> 0, body |-> <<>>],
     [raised |-> FALSE, status_code |-> 200, body |-> <<"<html>">>],
     [raised |-> FALSE, status_code |-> 404, body |-> <<"Not Found">>]}

\* what the details config of gather_inputs holds: nothing that can be
\* read, no section, or a section with one input file, there or not
NoDetails == Details(FALSE, <<>>)

DetailsConfigs ==
    {NoDetails, Details(TRUE, <<>>)}
    \cup {Details(TRUE, <<Section(name, <<InputFile(found, <<"F">>)>>,
                                  <<"D">>, None)>>) :
             name \in {NoName, "jd_link"}, found \in BOOLEAN}

\* ------------------------------------------------------------------------
\* main() (cv_creator.py:284-348)
\* ------------------------------------------------------------------------
VARIABLES
    config,                      \* line 296: the loaded workflow config
    steps,                       \* line 299
    valid,                       \* the result of validate_config, line 300
    pc,                          \* where main() is
    executed_steps,              \* line 307: the keys of the dict
    last_executed_steps_count,   \* line 308
    at,                          \* position of the for loop of line 315
    pending_steps,               \* line 311: the names the error lists
    dispatched,                  \* history: the steps dispatched, in order
    passes,                      \* history: passes of the for loop begun
    pass_executed,               \* history: steps executed in the latest pass
    args,                        \* line 290: the command line
    variables,                   \* line 13: the variable store
    error,                       \* the error that has ended the run
    requests,                    \* history: the prompts sent to the API
    files,                       \* the files written, by path
    prompt,                      \* render_prompt called alone: its arguments
    context,
    rendered,                    \* and what it returns
    post,                        \* llm_task called alone: what requests.post does
    details,                     \* gather_inputs called alone: the details config
    opened,                      \* write_file called alone: whether open() succeeds
    posts,                       \* json_iterator called alone: what requests.post
                                 \* does, call after call
    block,                       \* translate_block: its arguments, with config
    retry_count,
    api_calls,                   \* history: what each call of the API has done
    slept,                       \* history: the seconds of each time.sleep
    translated,                  \* what translate_block returns
    blocks,                      \* process_file, line 173: the parsed blocks
    futures,                     \* line 188: the jobs submitted, by index
    results,                     \* line 183
    translated_doc,              \* line 205
    input_files,                 \* transcribe.py, line 222
    threads,                     \* line 251, with the files passed by
    disk                         \* the output files that exist, by path

vars == <<config, steps, valid, pc, executed_steps, last_executed_steps_count,
          at, pending_steps, dispatched, passes, pass_executed, args,
          variables, error, requests, files, prompt, context, rendered, post,
          details, opened, posts, block, retry_count, api_calls, slept,
          translated, blocks, futures, results, translated_doc, input_files,
          threads, disk>>

\* what main() neither reads nor writes
callvars == <<prompt, context, rendered, post, details, opened, posts, block,
              retry_count, api_calls, slept, translated, blocks, futures,
              results, translated_doc, input_files, threads, disk>>

\* what translate_block reads and writes, but for its config
translatevars == <<block, retry_count, api_calls, slept, translated>>

\* what process_file reads and writes, but for its config
processvars == <<blocks, futures, results, translated_doc>>

\* what main() of transcribe.py reads and writes
transcribevars == <<input_files, threads, disk>>

\* what the world outside does to an executor called alone
worldvars == <<details, opened, posts>>

\* what a function called alone neither reads nor writes
mainvars == <<config, valid, executed_steps, last_executed_steps_count, at,
              pending_steps, dispatched, passes, pass_executed, args>>

\* line 13: the store of a module just loaded, and a file system in which
\* nothing has been written
EmptyStore == [k \in {} |-> None]

NoPost == Post(TRUE, 0, TransportFailure)

NoWorld == details = NoDetails /\ opened = FALSE /\ posts = <<>>

\* translate_md.py:74: a block of no text
NoBlock == [type |-> "empty", text |-> <<>>]

NoTranslation ==
    /\ block = NoBlock
    /\ retry_count = 0
    /\ api_calls = <<>>
    /\ slept = <<>>
    /\ translated = <<>>

\* process_file is not running
NoProcess ==
    /\ blocks = <<>>
    /\ futures = <<>>
    /\ results = <<>>
    /\ translated_doc = <<>>

NoFiles == [k \in {} |-> <<>>]

\* transcribe.py is not running
NoTranscription ==
    /\ input_files = <<>>
    /\ threads = <<>>
    /\ disk = NoFiles

NoCall ==
    /\ prompt = <<>> /\ context = <<>> /\ rendered = <<>> /\ post = NoPost
    /\ NoWorld
    /\ NoTranslation
    /\ NoProcess
    /\ NoTranscription

NotRun == [ok |-> FALSE, reason |-> "not_run", at |-> 0]

MaxPasses == MaxLoopSteps + MaxCfgSteps + 2

Terminal == {"success", "exit1", "deadlock", "step_error", "crash"}

\* line 299: steps = config.get('workflow', [])
WorkflowOf(cfg) == cfg.workflow.items

\* line 317: "if step_name in executed_steps: continue"
AlreadyExecuted_Never(step_name, executed) == FALSE

AlreadyExecuted(step_name, executed) == step_name \in executed

\* lines 323-329: some dependency is not yet a key of executed_steps
dependency_not_yet_executed_NoneDone(step_dependencies, executed) ==
    step_dependencies # {} /\ \A dependency \in step_dependencies :
                                  dependency \notin executed

dependency_not_yet_executed(step_dependencies, executed) ==
    \E dependency \in step_dependencies : dependency \notin executed

\* lines 334-345: the dispatch on the step type, with each thing that the
\* world outside may do to the executor called.  An unknown type raises at
\* line 345 without any executor being called.
Dispatch(step, cli, store, written) ==
    IF step.type = "gather_inputs"
    THEN {gather_inputs(step, cli, store, written, user_details_config) :
             user_details_config \in DetailsConfigs}
    ELSE IF step.type = "download_document"
    THEN {download_document(store, written, fetch) : fetch \in FetchOutcomes}
    ELSE IF step.type = "llm_task"
    THEN {llm_task(step, store, written, answer) : answer \in PostOutcomes}
    ELSE IF step.type = "write_file"
    THEN {write_file(step, cli, store, written, opens) : opens \in BOOLEAN}
    ELSE IF step.type = "json_iterator"
    THEN {json_iterator(step, store, written, answers) :
             answers \in [1..CallsOf(step, store) -> PostOutcomes]}
    ELSE {Result("unknown_type", store,
                 Message("ValueError", "Unknown step type", <<>>, <<>>),
                 <<>>, written)}

\* lines 50-52 and 80: validate_config assigns to the name 'variables' and
\* does not declare it global, so the name is local to it and the store of
\* the module is what it was.  And the same with the name declared global:
\* the store is then the list that line 80 has taken from the step at which
\* the validation of the variables has ended.
StoreAfterValidation_Global(store, cfg, verdict) ==
    IF verdict.reason = "variable"
    THEN [k \in Range(cfg.workflow.items[verdict.at].variables.items) |-> None]
    ELSE EmptyStore

StoreAfterValidation(store, cfg, verdict) == store

\* lines 300-305: where main() goes on the verdict of the validator
AfterValidation_Run(ok) == "while"

AfterValidation(ok) == IF ok THEN "while" ELSE "exit1"

\* line 346, reached only when the executor has returned
MarkExecuted_Always(executed, step_name, outcome) == executed \cup {step_name}

MarkExecuted_Never(executed, step_name, outcome) == executed

MarkExecuted(executed, step_name, outcome) ==
    IF outcome = "returned" THEN executed \cup {step_name} ELSE executed

\* line 310
NoProgress_Never(executed, last_count) == FALSE

NoProgress(executed, last_count) == Cardinality(executed) = last_count

\* line 311
RECURSIVE PendingSteps_All(_, _)
PendingSteps_All(todo, executed) ==
    IF todo = <<>> THEN <<>>
    ELSE <<Head(todo).step>> \o PendingSteps_All(Tail(todo), executed)

RECURSIVE PendingSteps(_, _)
PendingSteps(todo, executed) ==
    IF todo = <<>> THEN <<>>
    ELSE (IF Head(todo).step \notin executed THEN <<Head(todo).step>> ELSE <<>>)
         \o PendingSteps(Tail(todo), executed)

\* main() is given a config without a step list, or a list of at most
\* MaxCfgSteps steps (the empty list among them)
Init ==
    /\ \/ config \in ConfigsWithoutList
       \/ \E n \in 0..MaxCfgSteps : \E items \in [1..n -> CfgSteps] :
              config = ListConfig(items)
    /\ steps = <<>>
    /\ valid = NotRun
    /\ pc = "start"
    /\ executed_steps = {}
    /\ last_executed_steps_count = -1
    /\ at = 0
    /\ pending_steps = <<>>
    /\ dispatched = <<>>
    /\ passes = 0
    /\ pass_executed = 0
    /\ args = PlainArgs
    /\ variables = EmptyStore
    /\ error = NoError
    /\ requests = <<>>
    /\ files = NoFiles
    /\ NoCall

\* the execution loop on its own, entered at line 307 with any step list
InitLoop ==
    /\ \E n \in 0..MaxLoopSteps : \E f \in [1..n -> LoopChoices] :
          steps = LoopSteps(f)
    /\ config = ListConfig(steps)
    /\ valid = NotRun
    /\ pc = "while"
    /\ executed_steps = {}
    /\ last_executed_steps_count = -1
    /\ at = 0
    /\ pending_steps = <<>>
    /\ dispatched = <<>>
    /\ passes = 0
    /\ pass_executed = 0
    /\ args = PlainArgs
    /\ variables = EmptyStore
    /\ error = NoError
    /\ requests = <<>>
    /\ files = NoFiles
    /\ NoCall

\* lines 299-308.  config.get on a document that is not a mapping raises
\* at line 299; a rejected config ends main() with SystemExit(1).
MainValidate ==
    /\ pc = "start"
    /\ IF ~config.is_dict
       THEN /\ pc' = "crash"
            /\ error' = Message("AttributeError", "", <<>>, <<>>)
            /\ UNCHANGED <<steps, valid, variables>>
       ELSE /\ steps' = WorkflowOf(config)
            /\ valid' = validate_config(config)
            /\ pc' = AfterValidation(valid'.ok)
            /\ variables' = IF valid'.ok THEN EmptyStore
                            ELSE StoreAfterValidation(variables, config, valid')
            /\ UNCHANGED error
    /\ executed_steps' = {}
    /\ last_executed_steps_count' = -1
    /\ UNCHANGED <<config, at, pending_steps, dispatched, passes, pass_executed,
                   args, requests, files>>
    /\ UNCHANGED callvars

\* lines 309-315: the test of the while loop, the test for lack of
\* progress, and the start of a pass of the for loop
WhileHead ==
    /\ pc = "while"
    /\ IF Cardinality(executed_steps) < Len(steps)
       THEN IF NoProgress(executed_steps, last_executed_steps_count)
            THEN /\ pending_steps' = PendingSteps(steps, executed_steps)
                 /\ pc' = "deadlock"
                 /\ error' = Message("ValueError",
                                     "Circular dependency detected or missing dependencies",
                                     pending_steps', <<>>)
                 /\ UNCHANGED <<last_executed_steps_count, at, passes, pass_executed>>
            ELSE /\ last_executed_steps_count' = Cardinality(executed_steps)
                 /\ at' = 1
                 /\ pc' = "for"
                 /\ passes' = Min(passes + 1, MaxPasses)
                 /\ pass_executed' = 0
                 /\ UNCHANGED <<pending_steps, error>>
       ELSE /\ pc' = "success"
            /\ UNCHANGED <<last_executed_steps_count, at, passes, pass_executed,
                           pending_steps, error>>
    /\ UNCHANGED <<config, steps, valid, executed_steps, dispatched, args,
                   variables, requests, files>>
    /\ UNCHANGED callvars

\* lines 315-346: one iteration of the for loop, or its end
ForStep ==
    /\ pc = "for"
    /\ IF at > Len(steps)
       THEN /\ pc' = "while"
            /\ UNCHANGED <<at, executed_steps, dispatched, pass_executed,
                           variables, error, requests, files>>
       ELSE LET step == steps[at]
                step_name == step.step
            IN  IF \/ AlreadyExecuted(step_name, executed_steps)
                   \/ dependency_not_yet_executed(step.dependencies.items,
                                                  executed_steps)
                THEN /\ at' = at + 1
                     /\ UNCHANGED <<pc, executed_steps, dispatched, pass_executed,
                                    variables, error, requests, files>>
                ELSE \E result \in Dispatch(step, args, variables, files) :
                       LET outcome == result.outcome
                       IN  /\ dispatched' =
                                  Append(dispatched,
                                         [at |-> at, outcome |-> outcome,
                                          call_failed |-> result.call_failed])
                           /\ variables' = result.variables
                           /\ error' = result.error
                           /\ requests' = requests \o result.sent
                           /\ files' = result.files
                           /\ executed_steps' =
                                  MarkExecuted(executed_steps, step_name, outcome)
                           /\ IF outcome = "returned"
                              THEN /\ at' = at + 1
                                   /\ pass_executed' = pass_executed + 1
                                   /\ UNCHANGED pc
                              ELSE /\ pc' = "step_error"
                                   /\ UNCHANGED <<at, pass_executed>>
    /\ UNCHANGED <<config, steps, valid, last_executed_steps_count,
                   pending_steps, passes, args>>
    /\ UNCHANGED callvars

Next == MainValidate \/ WhileHead \/ ForStep

NextLoop == WhileHead \/ ForStep

Spec == Init /\ [][Next]_vars

SpecFair == Init /\ [][Next]_vars /\ WF_vars(Next)

SpecLoop == InitLoop /\ [][NextLoop]_vars

SpecLoopFair == InitLoop /\ [][NextLoop]_vars /\ WF_vars(NextLoop)

\* ------------------------------------------------------------------------
\* main() on workflows of each type of step
\* ------------------------------------------------------------------------
\* an 'llm' entry whose prompt has placeholders
LlmWith(names) ==
    [PlainLlm EXCEPT
        !.prompt = <<"Write">> \o Flatten([i \in DOMAIN names |-> Placeholder(names[i])])]

\* an action of a json_iterator step
Action(type) ==
    [type |-> type, prompt_variables |-> <<"current_item">>,
     llm |-> LlmWith(<<"current_item">>)]

\* the keys that the executor of a step reads, for each type of step: an
\* llm_task that is plain, one that reads what gather_inputs and
\* download_document store, one without endpoint and one without model; a
\* write_file of no variable, of one and of two; a json_iterator over the
\* answer of an llm_task with an action that names its output or not, and
\* one with an action of another type
ExecutorKeys(type) ==
    LET plain == Step(NoName, type, IsList({}), IsList(<<>>))
    IN  IF type = "llm_task"
        THEN {With(plain, [llm |-> PlainLlm]),
              With(plain, [prompt_variables |-> <<"jd_link", "jd_html">>,
                           llm |-> LlmWith(<<"jd_link", "jd_html">>),
                           output_variable |-> "cv"]),
              With(plain, [llm |-> [prompt |-> <<"Write">>, model |-> "M"]]),
              With(plain, [llm |-> [prompt |-> <<"Write">>, endpoint |-> "E",
                                    model |-> Unset]])}
        ELSE IF type = "write_file"
        THEN {plain,
              With(plain, [to_write_variables |-> <<"cv">>,
                           output_file |-> "out.md"]),
              With(plain, [to_write_variables |-> <<"llm_response", "cv">>])}
        ELSE IF type = "json_iterator"
        THEN {With(plain, [list_variable |-> "llm_response",
                           actions |-> <<With(Action("llm_task"),
                                              [output_variable |-> "item_output"])>>]),
              With(plain, [list_variable |-> "llm_response",
                           actions |-> <<Action("llm_task")>>]),
              With(plain, [list_variable |-> "llm_response",
                           actions |-> <<Action("bogus")>>])}
        ELSE {plain}

RunChoices == UNION {ExecutorKeys(type) : type \in recognized_types}

\* a workflow that the validator accepts: the k-th step is named
\* LoopNames[k] and depends on nothing, or on the step before it
RunSteps(choice, chained) ==
    [k \in DOMAIN choice |->
        With(choice[k],
             [step |-> LoopNames[k],
              dependencies |-> IsList(IF k > 1 /\ chained[k]
                                      THEN {LoopNames[k - 1]} ELSE {})])]

\* --jd is a link, or the path of a file
RunArgs == {PlainArgs, [PlainArgs EXCEPT !.jd = <<"jd.txt">>]}

InitRun ==
    /\ \E n \in 1..MaxRunSteps : \E choice \in [1..n -> RunChoices] :
       \E chained \in [1..n -> BOOLEAN] :
          /\ chained[1] = FALSE
          /\ config = ListConfig(RunSteps(choice, chained))
    /\ args \in RunArgs
    /\ steps = <<>>
    /\ valid = NotRun
    /\ pc = "start"
    /\ executed_steps = {}
    /\ last_executed_steps_count = -1
    /\ at = 0
    /\ pending_steps = <<>>
    /\ dispatched = <<>>
    /\ passes = 0
    /\ pass_executed = 0
    /\ variables = EmptyStore
    /\ error = NoError
    /\ requests = <<>>
    /\ files = NoFiles
    /\ NoCall

SpecRun == InitRun /\ [][Next]_vars

\* ------------------------------------------------------------------------
\* render_prompt called alone
\* ------------------------------------------------------------------------
\* the keys of the contexts, and the pieces the templates are made of: a
\* placeholder of a key, a placeholder of no key, a word, a brace
RenderKeys == {"a", "b"}

TemplatePieces ==
    {Placeholder("a"), Placeholder("b"), Placeholder("z"), <<"T">>, <<"{">>,
     <<"}">>}

\* the values of the contexts: a word, the text of a placeholder, a brace,
\* a number
RenderValues ==
    {Txt(<<"X">>), Txt(Placeholder("a")), Txt(Placeholder("b")),
     Txt(Placeholder("z")), Txt(<<"{">>), Num(7)}

\* the orders in which a dict can hold some of the keys
KeyOrders ==
    {keys \in SeqsUpTo(RenderKeys, Cardinality(RenderKeys)) :
        \A i \in DOMAIN keys : \A j \in DOMAIN keys : keys[i] = keys[j] => i = j}

\* what the loop of main() holds when a function is called alone
LoopIdle ==
    /\ config = ListConfig(steps)
    /\ valid = NotRun
    /\ executed_steps = {}
    /\ last_executed_steps_count = -1
    /\ at = 0
    /\ pending_steps = <<>>
    /\ dispatched = <<>>
    /\ passes = 0
    /\ pass_executed = 0

MainIdle == LoopIdle /\ args = PlainArgs

InitRender ==
    /\ \E n \in 0..MaxPieces : \E pieces \in [1..n -> TemplatePieces] :
          prompt = Flatten(pieces)
    /\ \E keys \in KeyOrders : \E values \in [DOMAIN keys -> RenderValues] :
          context = [i \in DOMAIN keys |-> [k |-> keys[i], v |-> values[i]]]
    /\ rendered = <<>>
    /\ post = NoPost
    /\ NoWorld
    /\ pc = "render"
    /\ steps = <<>>
    /\ variables = EmptyStore
    /\ error = NoError
    /\ requests = <<>>
    /\ files = NoFiles
    /\ NoTranslation
    /\ NoProcess
    /\ NoTranscription
    /\ MainIdle

\* lines 16-20
Render ==
    /\ pc = "render"
    /\ rendered' = render_prompt(prompt, context)
    /\ pc' = "rendered"
    /\ UNCHANGED <<steps, variables, error, requests, files, prompt, context, post>>
    /\ UNCHANGED worldvars
    /\ UNCHANGED translatevars
    /\ UNCHANGED processvars
    /\ UNCHANGED transcribevars
    /\ UNCHANGED mainvars

NextRender == Render

SpecRender == InitRender /\ [][NextRender]_vars

\* ------------------------------------------------------------------------
\* llm_task called alone
\* ------------------------------------------------------------------------
\* the shapes of a body, member by member: each member absent, of a wrong
\* type or of the right one; a 'text' that is a string, null or a number
PartShapes(text) ==
    {Part("dict", TRUE, value) : value \in {Txt(text), None, Num(7)}}
    \cup {Part(kind, has_text, None) :
             kind \in {"str", "list"}, has_text \in BOOLEAN}
    \cup {Part("dict", FALSE, None), NoPart}

PartsShapes(text) ==
    {Parts(kind, NoPart) : kind \in {"absent", "falsy", "nonlist"}}
    \cup {Parts("list", first) : first \in PartShapes(text)}

ContentShapes ==
    {Content(kind, NoParts) : kind \in {"absent", "falsy", "nondict"}}
    \cup {Content("dict", parts) : parts \in PartsShapes(<<"X">>)}

ElementShapes ==
    {NoElement} \cup {Element("dict", content) : content \in ContentShapes}

CandidatesShapes ==
    {Candidates(kind, NoElement) : kind \in {"absent", "falsy", "nonlist"}}
    \cup {Candidates("list", first) : first \in ElementShapes}

TextShapes ==
    {[present |-> FALSE, value |-> None], [present |-> TRUE, value |-> Txt(<<"Y">>)]}

\* a step of type llm_task with the keys its executor reads
LlmStep(keys) == With(Step("A", "llm_task", IsList({}), IsList(<<>>)), keys)

\* an 'llm' entry: its endpoint and its model each absent, empty or there
LlmEntries ==
    {With(With([prompt |-> template], endpoint), model) :
        template \in {<<"Write">>, <<"Write">> \o Placeholder("a")},
        endpoint \in {NoKeys, [endpoint |-> Unset], [endpoint |-> "E"]},
        model \in {NoKeys, [model |-> Unset], [model |-> "M"]}}

\* the stores that hold some of the variables S, each a word
StoresOf(S) == {[k \in held |-> Txt(<<"X">>)] : held \in SUBSET S}

\* llm_task is called with a plain step and an empty store, for each shape
\* of answer; or with a step of each configuration and a store that holds
\* some of its prompt variables, for each outcome of PostOutcomes
InitLlmTask ==
    /\ \/ /\ steps = <<LlmStep([llm |-> PlainLlm])>>
          /\ variables = EmptyStore
          /\ \/ post \in {Post(TRUE, 0, TransportFailure), Post(FALSE, 200, NotJson),
                           Post(FALSE, 200, ResponseText(NoBody))}
             \/ \E candidates \in CandidatesShapes :
                \E parts \in PartsShapes(<<"P">>) : \E text \in TextShapes :
                    post = Post(FALSE, 200,
                                ResponseText(Body("dict", candidates, parts, text)))
       \/ /\ \E prompt_variables \in {NoKeys, [prompt_variables |-> <<"a">>],
                                      [prompt_variables |-> <<"a", "b">>]} :
             \E llm \in LlmEntries :
             \E output_variable \in {NoKeys, [output_variable |-> "cv"]} :
                 steps = <<LlmStep(With(With([llm |-> llm], prompt_variables),
                                        output_variable))>>
          /\ variables \in StoresOf({"a", "b"})
          /\ post \in PostOutcomes
    /\ pc = "call"
    /\ error = NoError
    /\ requests = <<>>
    /\ files = NoFiles
    /\ prompt = <<>>
    /\ context = <<>>
    /\ rendered = <<>>
    /\ NoWorld
    /\ NoTranslation
    /\ NoProcess
    /\ NoTranscription
    /\ MainIdle

\* lines 169-225
LlmTask ==
    /\ pc = "call"
    /\ LET result == llm_task(steps[1], variables, files, post)
       IN  /\ variables' = result.variables
           /\ error' = result.error
           /\ requests' = requests \o result.sent
           /\ files' = result.files
           /\ pc' = result.outcome
    /\ UNCHANGED <<steps, prompt, context, rendered, post>>
    /\ UNCHANGED worldvars
    /\ UNCHANGED translatevars
    /\ UNCHANGED processvars
    /\ UNCHANGED transcribevars
    /\ UNCHANGED mainvars

NextLlmTask == LlmTask

SpecLlmTask == InitLlmTask /\ [][NextLlmTask]_vars

\* ------------------------------------------------------------------------
\* gather_inputs called alone
\* ------------------------------------------------------------------------
\* the sections of a details config: named for no step, for a variable that
\* gather_inputs itself stores or for another one; without input file, with
\* files that are there and with one that is not
GatherSections ==
    {Section(name, section_files, <<"D">>, Txt(<<"fixed">>)) :
        name \in {NoName, "jd_link", "S"},
        section_files \in {<<>>, <<InputFile(TRUE, <<"F">>)>>,
                           <<InputFile(FALSE, <<>>)>>,
                           <<InputFile(TRUE, <<"F">>), InputFile(TRUE, <<"G">>)>>}}

\* gather_inputs is called with a store that holds some variables, as steps
\* run before it may have left it, and a details config of at most
\* MaxSections sections, or one that cannot be read
InitGather ==
    /\ steps = <<Step("A", "gather_inputs", IsList({}), IsList(<<>>))>>
    /\ \/ details = NoDetails
       \/ \E n \in 0..MaxSections : \E cv_structure \in [1..n -> GatherSections] :
              details = Details(TRUE, cv_structure)
    /\ variables \in StoresOf({"jd_link", "S"})
    /\ args \in RunArgs
    /\ pc = "call"
    /\ error = NoError
    /\ requests = <<>>
    /\ files = NoFiles
    /\ prompt = <<>>
    /\ context = <<>>
    /\ rendered = <<>>
    /\ post = NoPost
    /\ opened = FALSE
    /\ posts = <<>>
    /\ NoTranslation
    /\ NoProcess
    /\ NoTranscription
    /\ LoopIdle

\* lines 120-153
Gather ==
    /\ pc = "call"
    /\ LET result == gather_inputs(steps[1], args, variables, files, details)
       IN  /\ variables' = result.variables
           /\ error' = result.error
           /\ requests' = requests \o result.sent
           /\ files' = result.files
           /\ pc' = result.outcome
    /\ UNCHANGED <<steps, prompt, context, rendered, post>>
    /\ UNCHANGED worldvars
    /\ UNCHANGED translatevars
    /\ UNCHANGED processvars
    /\ UNCHANGED transcribevars
    /\ UNCHANGED mainvars

NextGather == Gather

SpecGather == InitGather /\ [][NextGather]_vars

\* ------------------------------------------------------------------------
\* json_iterator called alone
\* ------------------------------------------------------------------------
\* the text of the JSON array [1, ..., n]
RECURSIVE ArrayTokens(_)
ArrayTokens(n) ==
    IF n = 0 THEN <<>>
    ELSE IF n = 1 THEN <<DigitOf[2]>>
    ELSE ArrayTokens(n - 1) \o <<",", DigitOf[n + 1]>>

ArrayText(n) == Txt(<<"[">> \o ArrayTokens(n) \o <<"]">>)

\* the sub-actions of a json_iterator step: none, an llm_task that names its
\* output variable, one that does not, an action of another type, and two
\* actions
ActionLists ==
    LET named == With(Action("llm_task"), [output_variable |-> "item"])
        unnamed == Action("llm_task")
        other == Action("bogus")
    IN  {<<>>, <<named>>, <<unnamed>>, <<other>>, <<named, other>>,
         <<named, unnamed>>}

\* the steps of type json_iterator, each key there or not
IteratorSteps ==
    {With(Step("A", "json_iterator", IsList({}), IsList(<<>>)),
          With(With(list_variable, output_variable), actions)) :
        list_variable \in {NoKeys, [list_variable |-> "items"]},
        output_variable \in {NoKeys, [output_variable |-> "out"]},
        actions \in {NoKeys} \cup {[actions |-> list] : list \in ActionLists}}

\* what the list variable holds: an array of at most MaxItems items, a JSON
\* text that is no array, or a number
ListValues ==
    {ArrayText(n) : n \in 0..MaxItems} \cup {Txt(<<"{", "}">>), Num(7)}

\* the stores of a call: with the list variable or without it, and with a
\* value that an earlier step has left under 'item_output' or without it
IteratorStores ==
    {list @@ left :
        list \in {EmptyStore} \cup {[k \in {"items"} |-> value] : value \in ListValues},
        left \in {EmptyStore, [k \in {"item_output"} |-> Txt(<<"old">>)]}}

\* what requests.post does with the request of an item: the API answers
\* with one text or another, requests.post raises, or the API answers with
\* candidates that are strings
ItemOutcomes ==
    {Post(FALSE, 200, ResponseText(AnswerBody(Txt(<<"X">>)))),
     Post(FALSE, 200, ResponseText(AnswerBody(Txt(<<"Y">>)))),
     Post(TRUE, 0, TransportFailure),
     Post(FALSE, 200, ResponseText(StringCandidatesBody))}

InitIterator ==
    /\ \E step \in IteratorSteps : \E store \in IteratorStores :
       \E answers \in [1..CallsOf(step, store) -> ItemOutcomes] :
          /\ steps = <<step>>
          /\ variables = store
          /\ posts = answers
    /\ pc = "call"
    /\ error = NoError
    /\ requests = <<>>
    /\ files = NoFiles
    /\ prompt = <<>>
    /\ context = <<>>
    /\ rendered = <<>>
    /\ post = NoPost
    /\ details = NoDetails
    /\ opened = FALSE
    /\ NoTranslation
    /\ NoProcess
    /\ NoTranscription
    /\ MainIdle

\* lines 227-261
Iterate ==
    /\ pc = "call"
    /\ \E result \in {json_iterator(steps[1], variables, files, posts)} :
           /\ variables' = result.variables
           /\ error' = result.error
           /\ requests' = requests \o result.sent
           /\ files' = result.files
           /\ pc' = result.outcome
    /\ UNCHANGED <<steps, prompt, context, rendered, post>>
    /\ UNCHANGED worldvars
    /\ UNCHANGED translatevars
    /\ UNCHANGED processvars
    /\ UNCHANGED transcribevars
    /\ UNCHANGED mainvars

NextIterator == Iterate

SpecIterator == InitIterator /\ [][NextIterator]_vars

\* ------------------------------------------------------------------------
\* write_file called alone
\* ------------------------------------------------------------------------
\* the steps of type write_file: 'to_write_variables' absent or a list of at
\* most MaxVars names, 'output_file' absent, empty or a path
WriteSteps ==
    {With(Step("A", "write_file", IsList({}), IsList(<<>>)),
          With(to_write_variables, output_file)) :
        to_write_variables \in
            {NoKeys} \cup {[to_write_variables |-> names] :
                              names \in SeqsUpTo({"a", "b"}, MaxVars)},
        output_file \in {NoKeys, [output_file |-> Unset], [output_file |-> "out.md"]}}

\* the stores of a call: each variable absent, a text, None or, for one of
\* them, a number
WriteStores ==
    {a @@ b :
        a \in {EmptyStore} \cup {[k \in {"a"} |-> value] :
                                    value \in {Txt(<<"X">>), None, Num(7)}},
        b \in {EmptyStore} \cup {[k \in {"b"} |-> value] :
                                    value \in {Txt(<<"Y">>), None}}}

\* --output is the default path, or empty
WriteArgs == {PlainArgs, [PlainArgs EXCEPT !.output = Unset]}

\* the files before the call: none, or both destinations with a text
OldFiles == [k \in {"out.md", PlainArgs.output} |-> <<"old">>]

InitWriteFile ==
    /\ \E step \in WriteSteps : steps = <<step>>
    /\ variables \in WriteStores
    /\ args \in WriteArgs
    /\ files \in {NoFiles, OldFiles}
    /\ opened \in BOOLEAN
    /\ pc = "call"
    /\ error = NoError
    /\ requests = <<>>
    /\ prompt = <<>>
    /\ context = <<>>
    /\ rendered = <<>>
    /\ post = NoPost
    /\ details = NoDetails
    /\ posts = <<>>
    /\ NoTranslation
    /\ NoProcess
    /\ NoTranscription
    /\ LoopIdle

\* lines 263-282
WriteFile ==
    /\ pc = "call"
    /\ LET result == write_file(steps[1], args, variables, files, opened)
       IN  /\ variables' = result.variables
           /\ error' = result.error
           /\ requests' = requests \o result.sent
           /\ files' = result.files
           /\ pc' = result.outcome
    /\ UNCHANGED <<steps, prompt, context, rendered, post>>
    /\ UNCHANGED worldvars
    /\ UNCHANGED translatevars
    /\ UNCHANGED processvars
    /\ UNCHANGED transcribevars
    /\ UNCHANGED mainvars

NextWriteFile == WriteFile

SpecWriteFile == InitWriteFile /\ [][NextWriteFile]_vars

\* ------------------------------------------------------------------------
\* translate_block (translate_md.py:74-134)
\* ------------------------------------------------------------------------
\* A text of a block or of an answer is a sequence of characters.
\* str.strip(): the text without the blanks at its ends
RECURSIVE LStrip(_)
LStrip(text) ==
    IF text # <<>> /\ Head(text) = " " THEN LStrip(Tail(text)) ELSE text

RECURSIVE RStrip(_)
RStrip(text) ==
    IF text # <<>> /\ text[Len(text)] = " "
    THEN RStrip(SubSeq(text, 1, Len(text) - 1))
    ELSE text

Strip(text) == RStrip(LStrip(text))

\* lines 79-85: the blocks that are returned as they are, without a call
Skipped(b) == b.type \in {"empty", "code"} \/ Len(Strip(b.text)) < 3

\* line 123: config['processing']['retry_attempts']
RetryAttempts(cfg) == cfg.processing.retry_attempts

\* line 124: "if retry_count < max_retries", and the same with <=
MayRetry_Inclusive(count, max_retries) == count <= max_retries

MayRetry(count, max_retries) == count < max_retries

\* line 125: wait_time = 2 ** retry_count
wait_time(count) == 2 ^ count

\* lines 104-134: what a call of the API does: it answers with a text, with
\* a text of blanks or with no text at all (response.text is None, and
\* strip raises an AttributeError that line 132 catches), or it raises an
\* APIError or another exception
ApiOutcome(kind, text) == [kind |-> kind, text |-> text]

ApiOutcomes ==
    {ApiOutcome("text", <<"T", "r">>), ApiOutcome("text", <<" ", "T", " ">>),
     ApiOutcome("text", <<" ">>), ApiOutcome("none", <<>>),
     ApiOutcome("api_error", <<>>), ApiOutcome("exception", <<>>)}

\* lines 113-120 and 132-134: what translate_block returns after a call of
\* the API that has raised no APIError
Answered(b, outcome) ==
    IF outcome.kind = "text" /\ Strip(outcome.text) # <<>>
    THEN Strip(outcome.text)
    ELSE b.text

\* translate_md.py:27-72: blocks as parse_markdown makes them: the empty
\* block, and blocks of each type with a stripped text, shorter than three
\* characters or not
TranslatorBlocks ==
    {NoBlock}
    \cup {[type |-> type, text |-> text] :
            type \in {"paragraph", "heading", "list", "table", "code"},
            text \in {<<"#", "a">>, <<"a", " ", "b">>, <<"-", " ", "a", "b">>}}

\* a translator config (config_translator.yml), of which the model keeps
\* the key that decides what translate_block does: line 123 reads
\* retry_attempts as a key that is there, a number of attempts
TranslatorConfig(retry_attempts) ==
    [processing |-> [retry_attempts |-> retry_attempts]]

\* translate_block is called by translate_worker, without retry_count
InitTranslate ==
    /\ \E retry_attempts \in 0..MaxRetries : config = TranslatorConfig(retry_attempts)
    /\ block \in TranslatorBlocks
    /\ retry_count = 0
    /\ api_calls = <<>>
    /\ slept = <<>>
    /\ translated = <<>>
    /\ pc = "translate"
    /\ steps = <<>>
    /\ valid = NotRun
    /\ executed_steps = {}
    /\ last_executed_steps_count = -1
    /\ at = 0
    /\ pending_steps = <<>>
    /\ dispatched = <<>>
    /\ passes = 0
    /\ pass_executed = 0
    /\ args = PlainArgs
    /\ variables = EmptyStore
    /\ error = NoError
    /\ requests = <<>>
    /\ files = NoFiles
    /\ prompt = <<>>
    /\ context = <<>>
    /\ rendered = <<>>
    /\ post = NoPost
    /\ NoWorld
    /\ NoProcess
    /\ NoTranscription

\* lines 74-134: one activation of translate_block, up to its return or to
\* the call of itself of line 128, the sleep of line 127 included
TranslateBlock ==
    /\ pc = "translate"
    /\ IF Skipped(block)
       THEN /\ translated' = block.text
            /\ pc' = "returned"
            /\ UNCHANGED <<retry_count, api_calls, slept>>
       ELSE \E outcome \in ApiOutcomes :
              /\ api_calls' = Append(api_calls, outcome.kind)
              /\ IF outcome.kind = "api_error"
                 THEN IF MayRetry(retry_count, RetryAttempts(config))
                      THEN /\ slept' = Append(slept, wait_time(retry_count))
                           /\ retry_count' = retry_count + 1
                           /\ UNCHANGED <<pc, translated>>
                      ELSE /\ translated' = block.text
                           /\ pc' = "returned"
                           /\ UNCHANGED <<retry_count, slept>>
                 ELSE /\ translated' = Answered(block, outcome)
                      /\ pc' = "returned"
                      /\ UNCHANGED <<retry_count, slept>>
    /\ UNCHANGED <<block, steps, variables, error, requests, files, prompt,
                   context, rendered, post>>
    /\ UNCHANGED worldvars
    /\ UNCHANGED processvars
    /\ UNCHANGED transcribevars
    /\ UNCHANGED mainvars

NextTranslate == TranslateBlock

\* a call that has begun runs on to its return
SpecTranslateFair ==
    InitTranslate /\ [][NextTranslate]_vars /\ WF_vars(NextTranslate)

\* ------------------------------------------------------------------------
\* process_file (translate_md.py:148-210), translate_worker (136-146)
\* ------------------------------------------------------------------------
\* lines 74-134: what translate_block may return for a block: the text of
\* the block, or the stripped text of an answer of the API
Translations(b) ==
    IF Skipped(b) THEN {b.text}
    ELSE {b.text}
         \cup {Answered(b, outcome) :
                 outcome \in {o \in ApiOutcomes : o.kind # "api_error"}}

\* a job of the pool: where it is ("pending", "running", "returned",
\* "raised"), the pair that translate_worker returns at line 146, and its
\* place in the order of as_completed (0: not yet yielded)
Future(state, idx, text, yielded) ==
    [state |-> state, idx |-> idx, text |-> text, yielded |-> yielded]

\* lines 188-191: the job of the block of an index, as submitted.  The model
\* counts the indexes from 1.
Submitted(idx) == Future("pending", idx, <<>>, 0)

Running == {i \in DOMAIN futures : futures[i].state = "running"}

Finished == {i \in DOMAIN futures : futures[i].state \in {"returned", "raised"}}

Yielded == {i \in DOMAIN futures : futures[i].yielded > 0}

\* lines 198 and 201: results[...] = ..., and the same as an append to the
\* results that are there
StoreAt_Next(list, idx, text) ==
    LET free == CHOOSE k \in DOMAIN list :
                    list[k] = None /\ \A j \in 1..(k - 1) : list[j] # None
    IN  [list EXCEPT ![free] = Txt(text)]

StoreAt(list, idx, text) == [list EXCEPT ![idx] = Txt(text)]

\* a translator config, of which the model keeps the key that decides how
\* many jobs run at a time (line 177)
ProcessConfig(max_workers) == [processing |-> [max_workers |-> max_workers]]

\* lines 27-72: blocks that parse_markdown makes: the empty block, which
\* translate_block returns as it is, and a paragraph, which it translates
DocumentBlocks ==
    {NoBlock, [type |-> "paragraph", text |-> <<"a", " ", "b">>]}

\* line 205: the path of the output file
OutputPath == "output.md"

\* process_file after line 191: the document is parsed (text.split yields
\* one part at least), results holds a None for each block and every job is
\* submitted
InitProcess ==
    /\ \E max_workers \in 1..MaxWorkers : config = ProcessConfig(max_workers)
    /\ \E n \in 1..MaxBlocks : blocks \in [1..n -> DocumentBlocks]
    /\ futures = [i \in DOMAIN blocks |-> Submitted(i)]
    /\ results = [i \in DOMAIN blocks |-> None]
    /\ translated_doc = <<>>
    /\ pc = "collect"
    /\ steps = <<>>
    /\ valid = NotRun
    /\ executed_steps = {}
    /\ last_executed_steps_count = -1
    /\ at = 0
    /\ pending_steps = <<>>
    /\ dispatched = <<>>
    /\ passes = 0
    /\ pass_executed = 0
    /\ args = PlainArgs
    /\ variables = EmptyStore
    /\ error = NoError
    /\ requests = <<>>
    /\ files = NoFiles
    /\ prompt = <<>>
    /\ context = <<>>
    /\ rendered = <<>>
    /\ post = NoPost
    /\ NoWorld
    /\ NoTranslation
    /\ NoTranscription

\* line 186: a thread of the pool takes the job that has waited longest,
\* when fewer than max_workers jobs are running
WorkerTakes ==
    /\ \E i \in DOMAIN futures :
          /\ futures[i].state = "pending"
          /\ \A j \in 1..(i - 1) : futures[j].state # "pending"
          /\ Cardinality(Running) < config.processing.max_workers
          /\ futures' = [futures EXCEPT ![i].state = "running"]
    /\ UNCHANGED <<blocks, results, translated_doc, pc, steps, variables,
                   error, requests, files, prompt, context, rendered, post>>
    /\ UNCHANGED worldvars
    /\ UNCHANGED translatevars
    /\ UNCHANGED transcribevars
    /\ UNCHANGED mainvars

\* lines 136-146: translate_worker ends: it returns its index and what
\* translate_block has returned, or it raises
WorkerEnds ==
    /\ \E i \in Running :
          \/ \E text \in Translations(blocks[i]) :
                 futures' = [futures EXCEPT ![i].state = "returned",
                                            ![i].text = text]
          \/ futures' = [futures EXCEPT ![i].state = "raised"]
    /\ UNCHANGED <<blocks, results, translated_doc, pc, steps, variables,
                   error, requests, files, prompt, context, rendered, post>>
    /\ UNCHANGED worldvars
    /\ UNCHANGED translatevars
    /\ UNCHANGED transcribevars
    /\ UNCHANGED mainvars

\* lines 194-201: as_completed yields a job that has ended, and the body of
\* the for loop stores its result
Collect ==
    /\ pc = "collect"
    /\ \E i \in Finished \ Yielded :
          /\ results' = IF futures[i].state = "returned"
                        THEN StoreAt(results, futures[i].idx, futures[i].text)
                        ELSE StoreAt(results, i, blocks[i].text)
          /\ futures' = [futures EXCEPT ![i].yielded = Cardinality(Yielded) + 1]
    /\ UNCHANGED <<blocks, translated_doc, pc, steps, variables, error,
                   requests, files, prompt, context, rendered, post>>
    /\ UNCHANGED worldvars
    /\ UNCHANGED translatevars
    /\ UNCHANGED transcribevars
    /\ UNCHANGED mainvars

\* lines 203-210, after every job has been yielded: the results are joined
\* and written; str.join raises a TypeError on a None
Reassemble ==
    /\ pc = "collect"
    /\ Yielded = DOMAIN futures
    /\ IF \E i \in DOMAIN results : results[i] = None
       THEN /\ pc' = "raised"
            /\ error' = Message("TypeError", "", <<>>, <<>>)
            /\ UNCHANGED <<translated_doc, files>>
       ELSE /\ translated_doc' = Join(results)
            /\ files' = (OutputPath :> Join(results))
            /\ pc' = "reassembled"
            /\ UNCHANGED error
    /\ UNCHANGED <<blocks, futures, results, steps, variables, requests,
                   prompt, context, rendered, post>>
    /\ UNCHANGED worldvars
    /\ UNCHANGED translatevars
    /\ UNCHANGED transcribevars
    /\ UNCHANGED mainvars

NextProcess == WorkerTakes \/ WorkerEnds \/ Collect \/ Reassemble

SpecProcess == InitProcess /\ [][NextProcess]_vars

\* ------------------------------------------------------------------------
\* main() of transcribe.py (lines 250-268), transcribe_worker (128-159)
\* ------------------------------------------------------------------------
\* A path is a sequence of tokens: names of directories with a "/" after
\* each, then the root of the file name and its extension.
Extensions == {".m4a"}

\* line 256: os.path.basename, what stands after the last "/"
RECURSIVE basename(_)
basename(path) ==
    IF \E k \in DOMAIN path : path[k] = "/" THEN basename(Tail(path)) ELSE path

\* line 257: the root that os.path.splitext splits from the extension
splitext(name) ==
    IF Len(name) > 1 /\ name[Len(name)] \in Extensions
    THEN SubSeq(name, 1, Len(name) - 1)
    ELSE name

\* lines 246-247: the output directory and the prefix of the command line,
\* of the config or of the defaults
OutputDir == "out"
Prefix == "transcript"

\* line 260: os.path.join(out_dir, f"{prefix}-{input_name}.txt")
output_path(out_dir, prefix, input_file) ==
    <<out_dir, "/", prefix, "-">> \o splitext(basename(input_file)) \o <<".txt">>

\* the audio files of a command line: two of a name in two directories,
\* and one of another name
AudioPaths ==
    {<<"x", ".m4a">>, <<"a", "/", "x", ".m4a">>, <<"y", ".m4a">>}

\* lines 106-120: parse_input_files returns the elements of a set as a
\* list: no path twice, in any order
InputLists ==
    {list \in SeqsUpTo(AudioPaths, MaxInputs) :
        /\ list # <<>>
        /\ \A i, j \in DOMAIN list : i # j => list[i] # list[j]}

\* an input file that the loop of line 252 has passed: the thread started
\* for it, where its worker is ("run", "check", "prompt", "write", "done"),
\* and the mode in which the worker opens the output; "skipped" when line
\* 253 has found no file and no thread is started
Thread(input_file, path, where, write_mode) ==
    [input_file |-> input_file, output_path |-> path, at |-> where,
     write_mode |-> write_mode]

\* line 135: the transcript of the k-th input file
Transcript(k) == DigitOf[k + 1]

\* main() at line 250, with output files of earlier runs or without
InitTranscribe ==
    /\ input_files \in InputLists
    /\ threads = <<>>
    /\ \E old \in SUBSET {output_path(OutputDir, Prefix, f) : f \in AudioPaths} :
          disk = [path \in old |-> <<"old">>]
    /\ pc = "spawn"
    /\ config = ListConfig(<<>>)
    /\ steps = <<>>
    /\ valid = NotRun
    /\ executed_steps = {}
    /\ last_executed_steps_count = -1
    /\ at = 0
    /\ pending_steps = <<>>
    /\ dispatched = <<>>
    /\ passes = 0
    /\ pass_executed = 0
    /\ args = PlainArgs
    /\ variables = EmptyStore
    /\ error = NoError
    /\ requests = <<>>
    /\ files = NoFiles
    /\ prompt = <<>>
    /\ context = <<>>
    /\ rendered = <<>>
    /\ post = NoPost
    /\ NoWorld
    /\ NoTranslation
    /\ NoProcess

\* lines 252-266: one turn of the for loop: the next input file is passed
\* by when it does not exist, and a thread is started for it otherwise
MainStarts ==
    /\ pc = "spawn"
    /\ Len(threads) < Len(input_files)
    /\ LET input_file == input_files[Len(threads) + 1]
       IN  \E found \in BOOLEAN :
             threads' = Append(threads,
                 IF found
                 THEN Thread(input_file,
                             output_path(OutputDir, Prefix, input_file),
                             "run", "w")
                 ELSE Thread(input_file, <<>>, "skipped", "w"))
    /\ UNCHANGED <<pc, disk>>
    /\ UNCHANGED <<input_files, steps, variables, error, requests, files,
                   prompt, context, rendered, post>>
    /\ UNCHANGED worldvars
    /\ UNCHANGED translatevars
    /\ UNCHANGED processvars
    /\ UNCHANGED mainvars

\* lines 130-135: the worker validates, converts and transcribes; an
\* exception, or no ffmpeg, ends it
WorkerTranscribes ==
    /\ \E i \in DOMAIN threads :
          /\ threads[i].at = "run"
          /\ \E done \in BOOLEAN :
                threads' = [threads EXCEPT
                               ![i].at = IF done THEN "check" ELSE "done"]
    /\ UNCHANGED <<pc, disk>>
    /\ UNCHANGED <<input_files, steps, variables, error, requests, files,
                   prompt, context, rendered, post>>
    /\ UNCHANGED worldvars
    /\ UNCHANGED translatevars
    /\ UNCHANGED processvars
    /\ UNCHANGED mainvars

\* line 137: os.path.exists(output_path)
WorkerChecks ==
    /\ \E i \in DOMAIN threads :
          /\ threads[i].at = "check"
          /\ threads' = [threads EXCEPT
                             ![i].at = IF threads[i].output_path \in DOMAIN disk
                                       THEN "prompt" ELSE "write"]
    /\ UNCHANGED <<pc, disk>>
    /\ UNCHANGED <<input_files, steps, variables, error, requests, files,
                   prompt, context, rendered, post>>
    /\ UNCHANGED worldvars
    /\ UNCHANGED translatevars
    /\ UNCHANGED processvars
    /\ UNCHANGED mainvars

\* lines 138-145: the answer to the prompt: append, override or skip
WorkerAnswers ==
    /\ \E i \in DOMAIN threads :
          /\ threads[i].at = "prompt"
          /\ \E action \in {"a", "o", "s"} :
                threads' = [threads EXCEPT
                               ![i].at = IF action = "s" THEN "done" ELSE "write",
                               ![i].write_mode = IF action = "a" THEN "a" ELSE "w"]
    /\ UNCHANGED <<pc, disk>>
    /\ UNCHANGED <<input_files, steps, variables, error, requests, files,
                   prompt, context, rendered, post>>
    /\ UNCHANGED worldvars
    /\ UNCHANGED translatevars
    /\ UNCHANGED processvars
    /\ UNCHANGED mainvars

\* lines 146-149: the output file is opened in the mode and written; an
\* open that fails ends the worker at line 151
WorkerWrites ==
    /\ \E i \in DOMAIN threads :
          /\ threads[i].at = "write"
          /\ threads' = [threads EXCEPT ![i].at = "done"]
          /\ \E opens \in BOOLEAN :
                LET path == threads[i].output_path
                    kept == IF threads[i].write_mode = "a" /\ path \in DOMAIN disk
                            THEN disk[path] ELSE <<>>
                    written == IF threads[i].write_mode = "a"
                               THEN kept \o <<"---", Transcript(i)>>
                               ELSE <<Transcript(i)>>
                IN  disk' = IF opens THEN (path :> written) @@ disk ELSE disk
    /\ UNCHANGED pc
    /\ UNCHANGED <<input_files, steps, variables, error, requests, files,
                   prompt, context, rendered, post>>
    /\ UNCHANGED worldvars
    /\ UNCHANGED translatevars
    /\ UNCHANGED processvars
    /\ UNCHANGED mainvars

\* lines 267-268: every thread is joined
MainJoins ==
    /\ pc = "spawn"
    /\ Len(threads) = Len(input_files)
    /\ \A i \in DOMAIN threads : threads[i].at \in {"skipped", "done"}
    /\ pc' = "joined"
    /\ UNCHANGED <<threads, disk>>
    /\ UNCHANGED <<input_files, steps, variables, error, requests, files,
                   prompt, context, rendered, post>>
    /\ UNCHANGED worldvars
    /\ UNCHANGED translatevars
    /\ UNCHANGED processvars
    /\ UNCHANGED mainvars

NextTranscribe ==
    \/ MainStarts
    \/ WorkerTranscribes
    \/ WorkerChecks
    \/ WorkerAnswers
    \/ WorkerWrites
    \/ MainJoins

SpecTranscribe == InitTranscribe /\ [][NextTranscribe]_vars

TypeOK ==
    /\ pc \in {"start", "while", "for", "render", "rendered", "call", "returned",
               "raised", "translate", "collect", "reassembled", "spawn",
               "joined"} \cup Terminal
    /\ executed_steps \subseteq {steps[k].step : k \in DOMAIN steps}
    /\ at \in 0..(Len(steps) + 1)
    /\ passes \in 0..MaxPasses

\* ------------------------------------------------------------------------
\* The execution loop: what the history says
\* ------------------------------------------------------------------------
Returned(k) == dispatched[k].outcome = "returned"

\* the names of the steps whose executor had returned before the k-th dispatch
ReturnedBefore(k) ==
    {steps[dispatched[j].at].step : j \in {i \in 1..(k - 1) : Returned(i)}}

\* the positions of the steps whose executor has returned
DonePositions == {dispatched[k].at : k \in {i \in DOMAIN dispatched : Returned(i)}}

PendingPositions == DOMAIN steps \ DonePositions

AllReturned == \A k \in DOMAIN dispatched : Returned(k)

PositionOf(name) == CHOOSE k \in DOMAIN steps : steps[k].step = name

\* C1: when a step is dispatched, every step named in its dependencies has
\* been dispatched before it and its executor has returned; the order of
\* dispatch is therefore a topological order of the dependency graph.
C1_DependenciesFirst ==
    \A k \in DOMAIN dispatched :
        steps[dispatched[k].at].dependencies.items \subseteq ReturnedBefore(k)

\* a step with two dependencies has been dispatched in a later pass than the
\* first, after a step that stands behind it in the list
C1_Witness ==
    \E k \in DOMAIN dispatched :
        /\ k > 1
        /\ Returned(k)
        /\ passes >= 2
        /\ Cardinality(steps[dispatched[k].at].dependencies.items) = 2
        /\ dispatched[k].at < dispatched[k - 1].at

C2_Inv ==
    /\ \A j \in DOMAIN dispatched : \A k \in DOMAIN dispatched :
           dispatched[j].at = dispatched[k].at => j = k
    /\ pc = "success" =>
           /\ DonePositions = DOMAIN steps
           /\ Len(dispatched) = Len(steps)
    /\ executed_steps = {steps[k].step : k \in DonePositions}

C2_Step ==
    /\ executed_steps \subseteq executed_steps'
    /\ \A name \in executed_steps' \ executed_steps :
           /\ Len(dispatched') = Len(dispatched) + 1
           /\ dispatched'[Len(dispatched')].outcome = "returned"
           /\ steps[dispatched'[Len(dispatched')].at].step = name

\* C2: no step is dispatched more than once; in a run that ends in success
\* every step has been dispatched exactly once; a step becomes executed only
\* by a dispatch whose executor returns, and an executed step stays executed.
C2_ExactlyOnce == [](C2_Inv) /\ [][C2_Step]_vars

\* a run of several passes has ended in success
C2_Witness ==
    /\ pc = "success"
    /\ Len(steps) >= 3
    /\ passes >= 2

\* C3: when an executor raises, the run ends there: the failing step is not
\* marked executed, it is the last step dispatched (no other step follows,
\* it is not tried again) and the run is not a success.
C3_FailFast ==
    \A k \in DOMAIN dispatched :
        ~Returned(k) =>
            /\ k = Len(dispatched)
            /\ pc = "step_error"
            /\ steps[dispatched[k].at].step \notin executed_steps

\* an executor has raised after another step was executed and while a
\* further step was still waiting
C3_Witness ==
    /\ pc = "step_error"
    /\ Len(dispatched) >= 2
    /\ dispatched[Len(dispatched)].outcome = "raised"
    /\ Cardinality(PendingPositions) >= 2

\* C4: the loop terminates; when every executor has returned it ends either
\* in success with every step executed, or in the failure that follows a
\* full pass in which no step was executed.
C4_Terminates ==
    <>(/\ pc \in Terminal
       /\ AllReturned =>
            \/ pc = "success" /\ DonePositions = DOMAIN steps
            \/ pc = "deadlock" /\ passes >= 1 /\ pass_executed = 0
                 /\ PendingPositions # {})

\* the loop has given up in its third pass, after two passes with progress
C4_Witness ==
    /\ pc = "deadlock"
    /\ passes = 3
    /\ Cardinality(executed_steps) = 2

\* the names the error lists are the names of the pending steps, each once,
\* in the order of the step list
C5_ListsPending ==
    /\ Range(pending_steps) = {steps[k].step : k \in PendingPositions}
    /\ Len(pending_steps) = Cardinality(PendingPositions)
    /\ \A i \in DOMAIN pending_steps : \A j \in DOMAIN pending_steps :
           i < j => PositionOf(pending_steps[i]) < PositionOf(pending_steps[j])

C5_Inv ==
    pc = "deadlock" =>
        /\ passes >= 1
        /\ pass_executed = 0
        /\ PendingPositions # {}
        /\ C5_ListsPending

C5_Step ==
    (/\ pc = "while"
     /\ passes >= 1
     /\ pass_executed = 0
     /\ PendingPositions # {}) => pc' = "deadlock"

\* C5: after a full pass that executes no step while steps are pending the
\* loop raises the circular-or-missing-dependency error; the names in the
\* error are exactly the steps not executed; the error is never raised after
\* a pass that executed a step.
C5_DeadlockError == [](C5_Inv) /\ [][C5_Step]_vars

\* the error has been raised with one step executed and two pending
C5_Witness ==
    /\ pc = "deadlock"
    /\ Cardinality(executed_steps) = 1
    /\ Len(pending_steps) = 2

\* ------------------------------------------------------------------------
\* validate_config: what the rules of the workflow say of a config
\* ------------------------------------------------------------------------
Items == config.workflow.items

NamesBefore(k) == {Items[j].step : j \in 1..(k - 1)}

\* rule (1): the workflow is a non-empty list
Rule1Broken == config.workflow.kind # "list" \/ Items = <<>>

\* rule (2) at step k: the name is missing, or an earlier step has it
NameBroken(k) == Items[k].step = NoName \/ Items[k].step \in NamesBefore(k)

\* rule (3) at step k
TypeBroken(k) == Items[k].type \notin recognized_types

\* rule (4) at step k: a dependency is not the name of an earlier step
DependencyBroken(k) ==
    \E dep \in Items[k].dependencies.items : dep \notin NamesBefore(k)

\* the declared variables, as (step, place in the step's list)
Declarations ==
    UNION {{<<k, place>> : place \in DOMAIN Items[k].variables.items} :
             k \in DOMAIN Items}

Declared(d) == Items[d[1]].variables.items[d[2]]

\* rule (5) at step k: a variable of step k is declared a second time, in
\* step k or in an earlier step
VariableBroken(k) ==
    \E d \in Declarations : \E e \in Declarations :
        /\ d[1] = k
        /\ e # d
        /\ e[1] <= k
        /\ Declared(e) = Declared(d)

RECURSIVE DependsOnWithin(_, _, _)
\* step i reaches step j along at most n dependencies
DependsOnWithin(i, j, n) ==
    /\ n > 0
    /\ \E m \in DOMAIN Items :
           /\ Items[m].step \in Items[i].dependencies.items
           /\ (m = j \/ DependsOnWithin(m, j, n - 1))

Acyclic == \A k \in DOMAIN Items : ~DependsOnWithin(k, k, Len(Items))

Validated == pc # "start" /\ config.is_dict

\* the workflow is the two steps A and B, sound but for A depending on B and
\* B on A
TwoCycle ==
    /\ config.is_dict
    /\ ~Rule1Broken
    /\ Len(Items) = 2
    /\ \A k \in DOMAIN Items :
           /\ ~NameBroken(k)
           /\ ~TypeBroken(k)
           /\ Items[k].dependencies = IsList({Items[3 - k].step})
           /\ Items[k].variables = IsList(<<>>)

\* C6 as claimed: a workflow in which A depends on B and B on A ends in the
\* deadlock error, which names A and B.
C6_CycleDeadlocks ==
    (TwoCycle /\ pc \in Terminal)
    => (pc = "deadlock" /\ Range(pending_steps) = {Items[1].step, Items[2].step})

\* C6: a workflow in which A depends on B and B on A is rejected by
\* validate_config, at its first step, for a dependency not found among the
\* previous steps; main() ends with exit status 1, no step is dispatched,
\* the deadlock error is not raised, and the run does not hang.
C6_CycleRejected ==
    /\ [](TwoCycle /\ pc # "start" =>
            /\ pc = "exit1"
            /\ valid = [ok |-> FALSE, reason |-> "dependency", at |-> 1]
            /\ dispatched = <<>>
            /\ pending_steps = <<>>)
    /\ ((TwoCycle /\ pc = "start") ~> (pc = "exit1"))

C6_Witness == TwoCycle /\ pc = "exit1"

\* C7 as claimed: validate_config accepts every non-empty list of steps with
\* unique names, recognised types, dependencies that name steps of the
\* workflow without a cycle, and declared variables that are unique.
C7_AcceptsWellFormed ==
    (/\ Validated
     /\ ~Rule1Broken
     /\ \A k \in DOMAIN Items :
            /\ ~NameBroken(k)
            /\ ~TypeBroken(k)
            /\ Items[k].dependencies.is_list
            /\ Items[k].dependencies.items \subseteq NamesBefore(Len(Items) + 1)
            /\ Items[k].variables.is_list
            /\ ~VariableBroken(k)
     /\ Acyclic)
    => (valid.ok /\ pc # "exit1")

\* C8: validate_config returns False, with a reason, for every workflow that
\* is not a non-empty list or that has a step with a missing or repeated
\* name, with an unrecognised type, or with a dependency that is not the
\* name of an earlier step (an absent step, the step itself, a later step).
C8_RejectsBroken ==
    (/\ Validated
     /\ \/ Rule1Broken
        \/ \E k \in DOMAIN Items :
               NameBroken(k) \/ TypeBroken(k) \/ DependencyBroken(k))
    => (/\ ~valid.ok
        /\ valid.reason \notin {"none", "not_run"}
        /\ pc = "exit1")

\* a sound step that depends on itself alone has been rejected
C8_Witness ==
    /\ Validated
    /\ pc = "exit1"
    /\ valid.reason = "dependency"
    /\ Len(Items) = 1
    /\ Items[1].dependencies.items = {Items[1].step}
    /\ Items[1].variables = IsList(<<>>)

\* C9 as claimed: the config is rejected for its declared variables if and
\* only if a variable name is declared more than once; when every declared
\* name occurs once the variables check does not reject.
C9_RejectsOnlyRepeats ==
    Validated =>
        /\ valid.reason = "variable" =>
               \E k \in DOMAIN Items : VariableBroken(k)
        /\ (/\ ~Rule1Broken
            /\ \E k \in DOMAIN Items : VariableBroken(k)
            /\ \A k \in DOMAIN Items :
                   /\ ~NameBroken(k) /\ ~TypeBroken(k) /\ ~DependencyBroken(k)
                   /\ Items[k].dependencies.is_list /\ Items[k].variables.is_list)
           => valid.reason = "variable"

\* the rule a diagnostic belongs to
RuleOf(reason) ==
    CASE reason = "workflow" -> 1
      [] reason = "name" -> 2
      [] reason = "type" -> 3
      [] reason \in {"deps_not_list", "dependency"} -> 4
      [] reason \in {"vars_not_list", "variable"} -> 5
      [] OTHER -> 0

\* the rules (2) to (5) that some step of the workflow breaks
RulesBroken ==
    {r \in 2..5 : \E k \in DOMAIN Items :
        \/ r = 2 /\ NameBroken(k)
        \/ r = 3 /\ TypeBroken(k)
        \/ r = 4 /\ (DependencyBroken(k) \/ ~Items[k].dependencies.is_list)
        \/ r = 5 /\ (VariableBroken(k) \/ ~Items[k].variables.is_list)}

\* C10 as claimed: when several rules are broken, the reason reported is
\* that of the first of them in the order (1) to (5), wherever in the list
\* the steps that break them stand.
C10_PrecedenceOfRules ==
    (Validated /\ ~Rule1Broken /\ Cardinality(RulesBroken) >= 2)
    => \A r \in RulesBroken : RuleOf(valid.reason) <= r

\* the check of the variables as the code makes it fails at every step that
\* declares a variable (see C9)
VariablesCheckFails(k) == Items[k].variables.items # <<>>

StepFails(k) ==
    \/ NameBroken(k) \/ TypeBroken(k)
    \/ ~Items[k].dependencies.is_list \/ DependencyBroken(k)
    \/ ~Items[k].variables.is_list \/ VariablesCheckFails(k)

ReasonAt(k) ==
    CASE NameBroken(k) -> "name"
      [] ~NameBroken(k) /\ TypeBroken(k) -> "type"
      [] OTHER ->
           IF ~Items[k].dependencies.is_list THEN "deps_not_list"
           ELSE IF DependencyBroken(k) THEN "dependency"
           ELSE IF ~Items[k].variables.is_list THEN "vars_not_list"
           ELSE "variable"

\* C10: the reason reported is that of the first step, in the order of the
\* list, at which a check fails, and at that step that of the first failing
\* check in the order name, type, dependencies, variables (the check of the
\* variables failing at every step that declares a variable); a step further
\* down the list that breaks a rule of higher precedence is not reported.
C10_FirstFailingStep ==
    (Validated /\ ~Rule1Broken /\ \E k \in DOMAIN Items : StepFails(k))
    => LET first == CHOOSE k \in DOMAIN Items :
                        StepFails(k) /\ \A j \in 1..(k - 1) : ~StepFails(j)
       IN  valid = [ok |-> FALSE, reason |-> ReasonAt(first), at |-> first]

\* the first step has been reported for its dependency although the second
\* step has no name
C10_Witness ==
    /\ Validated
    /\ ~Rule1Broken
    /\ Len(Items) = 2
    /\ valid = [ok |-> FALSE, reason |-> "dependency", at |-> 1]
    /\ Items[2].step = NoName

\* ------------------------------------------------------------------------
\* Prompt rendering
\* ------------------------------------------------------------------------
Contains(s, sub) ==
    \E i \in 1..(Len(s) - Len(sub) + 1) : SubSeq(s, i, i + Len(sub) - 1) = sub

\* the i-th value of the context holds the placeholder of another of its keys
HoldsOtherPlaceholder(i) ==
    \E j \in DOMAIN context :
        j # i /\ Contains(Str(context[i].v), Placeholder(context[j].k))

\* C19: rendering is a single pass of substitution: a value that holds the
\* placeholder of another key of the context, put in for a placeholder of
\* the template, stands in the rendered prompt as it is, in whatever order
\* the context holds its keys.
C19_ValueStandsVerbatim ==
    pc = "rendered" =>
        \A i \in DOMAIN context :
            (HoldsOtherPlaceholder(i) /\ Contains(prompt, Placeholder(context[i].k)))
                => Contains(rendered, Str(context[i].v))

\* the template with each placeholder of a key of the context replaced by
\* the string of the value of the key, and all the rest of it as it is
RECURSIVE SinglePass(_, _)
SinglePass(template, items) ==
    IF template = <<>> THEN <<>>
    ELSE IF \E i \in DOMAIN items :
                /\ Len(template) >= Len(Placeholder(items[i].k))
                /\ SubSeq(template, 1, Len(Placeholder(items[i].k)))
                       = Placeholder(items[i].k)
    THEN LET i == CHOOSE i \in DOMAIN items :
                      /\ Len(template) >= Len(Placeholder(items[i].k))
                      /\ SubSeq(template, 1, Len(Placeholder(items[i].k)))
                             = Placeholder(items[i].k)
         IN  Str(items[i].v)
             \o SinglePass(SubSeq(template, Len(Placeholder(items[i].k)) + 1,
                                  Len(template)), items)
    ELSE <<Head(template)>> \o SinglePass(Tail(template), items)

\* C20: the rendered prompt is the template with every {{k}}, k a key of
\* the context, replaced by the string of the value of k, and every
\* placeholder of a name that is no key left as it is.
C20_EveryPlaceholderReplaced ==
    pc = "rendered" => rendered = SinglePass(prompt, context)

\* ------------------------------------------------------------------------
\* llm_task: what it refuses, what it stores
\* ------------------------------------------------------------------------
\* the step llm_task is called with
Called == steps[1]

\* a name of prompt_variables is not in the store, or the endpoint or the
\* model is missing or empty
Incomplete ==
    \/ \E i \in DOMAIN PromptVariables(Called) :
           PromptVariables(Called)[i] \notin DOMAIN variables
    \/ "endpoint" \notin DOMAIN Called.llm \/ Called.llm.endpoint = Unset
    \/ "model" \notin DOMAIN Called.llm \/ Called.llm.model = Unset

\* C15: called with a prompt variable that the store does not hold, or
\* without an endpoint or a model, llm_task raises, sends no request to the
\* API and leaves the store as it was.
C15_RefusesUntouched ==
    [][(pc = "call" /\ Incomplete)
           => (pc' = "raised" /\ requests' = requests /\ variables' = variables)]_vars

\* llm_task has raised for the lack of a model alone, with the store it had
C15_Witness ==
    /\ pc = "raised"
    /\ requests = <<>>
    /\ LlmKey(Called, "endpoint", Unset) = "E"
    /\ "model" \in DOMAIN Called.llm
    /\ Called.llm.model = Unset
    /\ PromptVariables(Called) = <<"a">>
    /\ DOMAIN variables = {"a", "b"}
    /\ error.text = "LLM task must specify the model"

\* the answer llm_task was given
Answer == post.body

AnswerJson == Answer.json

IsText(value) == value.kind = "str"

\* every 'text' member the body holds, where the code or the claim may look
\* for one, is a string
TextsAreStrings ==
    /\ AnswerJson.candidates.first.content.parts.first.has_text
           => IsText(AnswerJson.candidates.first.content.parts.first.text)
    /\ AnswerJson.parts.first.has_text => IsText(AnswerJson.parts.first.text)

\* the body has a text at candidates[0].content.parts[0].text
HasCandidatesText ==
    /\ Answer.parses /\ AnswerJson.kind = "dict"
    /\ AnswerJson.candidates.kind = "list"
    /\ AnswerJson.candidates.first.kind = "dict"
    /\ AnswerJson.candidates.first.content.kind = "dict"
    /\ AnswerJson.candidates.first.content.parts.kind = "list"
    /\ AnswerJson.candidates.first.content.parts.first.kind = "dict"
    /\ AnswerJson.candidates.first.content.parts.first.has_text

\* the body has a text at parts[0].text
HasPartsText ==
    /\ Answer.parses /\ AnswerJson.kind = "dict"
    /\ AnswerJson.parts.kind = "list"
    /\ AnswerJson.parts.first.kind = "dict"
    /\ AnswerJson.parts.first.has_text

\* the body has a text at text
HasText == Answer.parses /\ AnswerJson.kind = "dict" /\ AnswerJson.text.present

\* the text of the first tier that has one; the raw response as a string
\* when none has
TieredText ==
    IF HasCandidatesText
    THEN AnswerJson.candidates.first.content.parts.first.text
    ELSE IF HasPartsText THEN AnswerJson.parts.first.text
    ELSE IF HasText THEN AnswerJson.text.value
    ELSE Txt(StrOfResponse(Answer))

\* C17: llm_task stores under its output variable the text at
\* candidates[0].content.parts[0].text of the body it is answered with, else
\* the text at parts[0].text or at text, else the raw response as a string;
\* the body is the JSON text that send_gemini_request returns.
C17_StoresTieredText ==
    (pc = "returned" /\ TextsAreStrings)
        => /\ OutputVariable(Called) \in DOMAIN variables
           /\ variables[OutputVariable(Called)] = TieredText

\* C18: whatever the shape of the body, llm_task, once it has sent its
\* request, does not raise: it returns with a value under its output
\* variable.
C18_ExtractionNeverRaises ==
    (pc \in {"returned", "raised"} /\ requests # <<>>)
        => (pc = "returned" /\ OutputVariable(Called) \in DOMAIN variables)

\* ------------------------------------------------------------------------
\* The run and the variable store
\* ------------------------------------------------------------------------
\* C11: when validate_config returns False, main() ends with exit status 1:
\* no executor has been dispatched, no request sent, no file written, and
\* the store holds nothing.
C11_RejectedRunsNothing ==
    (pc # "start" /\ config.is_dict /\ ~valid.ok)
        => /\ pc = "exit1"
           /\ dispatched = <<>>
           /\ variables = EmptyStore
           /\ requests = <<>>
           /\ files = NoFiles

\* main() has ended with status 1 on a workflow whose first step is sound
\* and whose second is of an unknown type
C11_Witness ==
    /\ pc = "exit1"
    /\ valid = [ok |-> FALSE, reason |-> "type", at |-> 2]
    /\ Len(steps) = 2
    /\ steps[1].type = "llm_task"
    /\ dispatched = <<>>
    /\ variables = EmptyStore

\* the latest dispatch, and the step it was of
Latest == dispatched[Len(dispatched)]

LatestStep == steps[Latest.at]

\* C12 (of a state): a step whose call of the API, or of the link to
\* download, has failed has raised: it is the last step dispatched and it is
\* not marked executed.
C12_Inv ==
    \A k \in DOMAIN dispatched :
        dispatched[k].call_failed
            => /\ dispatched[k].outcome = "raised"
               /\ k = Len(dispatched)
               /\ pc = "step_error"
               /\ steps[dispatched[k].at].step \notin executed_steps

\* C12 (of a step): the dispatch of a step whose call fails writes nothing
\* to the store.
C12_Step ==
    (dispatched' # dispatched /\ dispatched'[Len(dispatched')].call_failed)
        => variables' = variables

\* C12: when the call of the API of an llm_task step fails (in transport, or
\* with a status of failure that send_gemini_request reports in its result),
\* or the fetch of download_document fails, the run is aborted: the step is
\* not marked executed, no later step is dispatched and nothing is written
\* as the output of the step.
C12_FailedCallAborts == [](C12_Inv) /\ [][C12_Step]_vars

\* the keys of the store that a step of the loop has written
WrittenKeys ==
    {k \in DOMAIN variables' : k \notin DOMAIN variables \/ variables'[k] # variables[k]}

\* C13: every key that the executor of a step writes to the store is one of
\* the variables that the step declares.
C13_WritesOnlyDeclared ==
    [][dispatched' # dispatched
          => WrittenKeys \subseteq
                 Range(steps[dispatched'[Len(dispatched')].at].variables.items)]_vars

\* C14: the store is empty until the first step is dispatched, and no step
\* of the run removes a key of it, the dispatch of a step that raises after
\* it has written included.
C14_StoreOnlyGrows ==
    /\ [](dispatched = <<>> => variables = EmptyStore)
    /\ [][DOMAIN variables \subseteq DOMAIN variables']_vars

\* the third step has raised after it has written a key, and the keys the
\* two steps before it wrote are still there
C14_Witness ==
    /\ pc = "step_error"
    /\ Len(dispatched) = 3
    /\ LatestStep.type = "gather_inputs"
    /\ DOMAIN variables = {"llm_response", "iterator_output", "current_item",
                           "item_output", "jd_link"}

\* the names of prompt_variables, to_write_variables or list_variable of
\* the step that are not in the store, or are None there
NotInStore(names) ==
    {names[i] : i \in {j \in DOMAIN names :
                          names[j] \notin DOMAIN variables
                              \/ variables[names[j]] = None}}

MissingVariables ==
    IF LatestStep.type = "llm_task" THEN NotInStore(PromptVariables(LatestStep))
    ELSE IF LatestStep.type = "write_file"
    THEN NotInStore(Get(LatestStep, "to_write_variables", <<>>))
    ELSE IF LatestStep.type = "json_iterator" /\ "list_variable" \in DOMAIN LatestStep
    THEN NotInStore(<<LatestStep.list_variable>>)
    ELSE {}

\* the errors raised for a variable that the store does not hold
MissingVariableTexts ==
    {"LLM task requires variables", "Required variable is not set",
     "Input variable for json_iterator not found"}

\* C16: the error that ends a run names the step that failed; an error for
\* a missing variable names a variable that the step requires and the store
\* does not hold, and no variable that the store holds.
C16_ErrorNamesStepAndVariable ==
    pc = "step_error" =>
        /\ LatestStep.step \in Range(error.steps)
        /\ error.text \in MissingVariableTexts
               => /\ error.names # <<>>
                  /\ Range(error.names) \subseteq MissingVariables

\* ------------------------------------------------------------------------
\* gather_inputs: what it leaves in the store
\* ------------------------------------------------------------------------
\* the input file texts of a section, in the order of its input files
SectionTexts(section) ==
    [i \in DOMAIN section.input_files |-> section.input_files[i].text]

\* a details config with at least one section whose input files all exist
AllFilesExist ==
    /\ details.readable
    /\ details.cv_structure # <<>>
    /\ \A i \in DOMAIN details.cv_structure : ~FileMissing(details.cv_structure[i])

\* the store holds, under the step name of the section, a record of the
\* section's input file texts, description and fixed text
HoldsSection(store, section) ==
    /\ section.step \in DOMAIN store
    /\ store[section.step].kind = "dict"
    /\ store[section.step].input_files = SectionTexts(section)
    /\ store[section.step].description = section.description
    /\ store[section.step].fixed = section.fixed

\* C21: gather_inputs, run on a details config with at least one section
\* whose input files all exist, returns without error and leaves in the
\* variable store, under each section's step name, a record holding that
\* section's input file texts, description and fixed text.
C21_GatherStoresSections ==
    (pc \in {"returned", "raised"} /\ AllFilesExist)
        => /\ pc = "returned"
           /\ \A i \in DOMAIN details.cv_structure :
                  HoldsSection(variables, details.cv_structure[i])

\* ------------------------------------------------------------------------
\* json_iterator: what it sends and what it joins
\* ------------------------------------------------------------------------
\* the sub-actions of the step called
ActionsOf(step) == Get(step, "actions", <<>>)

\* the list variable of the step called holds a JSON array
Iterable ==
    /\ "list_variable" \in DOMAIN Called
    /\ Called.list_variable \in DOMAIN variables
    /\ ParseArray(variables[Called.list_variable]).is_list

\* the elements of the array
Elements == ParseArray(variables[Called.list_variable]).items

\* every sub-action is an llm_task
OnlyLlmTasks ==
    \A a \in DOMAIN ActionsOf(Called) :
        Get(ActionsOf(Called)[a], "type", Unset) = "llm_task"

\* what the k-th invocation of llm_task has stored: the text it has taken
\* from the k-th answer
ItemResults ==
    [k \in DOMAIN posts |-> text_value(send_gemini_request(posts[k]).response).value]

\* the output variable holds the results of the invocations, joined
JoinsItemResults ==
    /\ IteratorOutputVariable(Called) \in DOMAIN variables
    /\ variables[IteratorOutputVariable(Called)] = Txt(Join(ItemResults))

\* C22: json_iterator with one llm_task sub-action over an array of n
\* elements invokes the sub-action once per element, in array order, with
\* current_item bound to that element, and writes to its output variable
\* the n per-item results in array order joined by "\n\n" (the empty string
\* when the array is empty).
C22_OncePerElementJoined ==
    (pc = "returned" /\ Iterable /\ Len(ActionsOf(Called)) = 1 /\ OnlyLlmTasks)
        => /\ Len(requests) = Len(Elements)
           /\ \A i \in DOMAIN Elements :
                  requests[i] = <<"Write">> \o Str(Elements[i])
           /\ JoinsItemResults

\* C29: for every sub-action and every array element, the value
\* json_iterator appends to its results is the value that the llm_task
\* invocation for that element stored, never an empty default or a value
\* left by an earlier element or step, also when the sub-action does not
\* specify an output_variable.
C29_AppendsWhatWasStored ==
    (pc = "returned" /\ Iterable /\ ActionsOf(Called) # <<>> /\ OnlyLlmTasks)
        => JoinsItemResults

\* ------------------------------------------------------------------------
\* json_iterator in a run of main(): what it refuses
\* ------------------------------------------------------------------------
\* the step that the for loop stands at is a json_iterator that is due: it
\* has not been executed and its dependencies have
IteratorDue ==
    /\ pc = "for"
    /\ at <= Len(steps)
    /\ steps[at].type = "json_iterator"
    /\ ~AlreadyExecuted(steps[at].step, executed_steps)
    /\ ~dependency_not_yet_executed(steps[at].dependencies.items, executed_steps)

\* the list variable of the step is absent from the store, or its value
\* does not parse as a JSON array, or a sub-action is no llm_task
ListAbsent(step, store) == Get(step, "list_variable", Unset) \notin DOMAIN store

ListUnparsed(step, store) ==
    /\ ~ListAbsent(step, store)
    /\ store[step.list_variable] \notin {ArrayText(n) : n \in 0..MaxItems}

OtherAction(step) ==
    \E a \in DOMAIN ActionsOf(step) :
        Get(ActionsOf(step)[a], "type", Unset) # "llm_task"

\* the output variable of the step is as it was
OutputUnwritten(step) ==
    LET output_var == IteratorOutputVariable(step)
    IN  /\ (output_var \in DOMAIN variables') = (output_var \in DOMAIN variables)
        /\ output_var \in DOMAIN variables
               => variables'[output_var] = variables[output_var]

\* C23: json_iterator raises an error when its list_variable is absent from
\* the store, when the value does not parse as a JSON array, or when a
\* sub-action has a type other than llm_task; in each of these cases its
\* output variable is not written and the step is not marked executed.
C23_IteratorRefuses ==
    [][(/\ IteratorDue
        /\ \/ ListAbsent(steps[at], variables)
           \/ ListUnparsed(steps[at], variables)
           \/ OtherAction(steps[at]))
           => /\ pc' = "step_error"
              /\ error'.exception \in {"ValueError", "TypeError"}
              /\ OutputUnwritten(steps[at])
              /\ executed_steps' = executed_steps]_vars

\* a json_iterator has found an array under its list variable and has raised
\* on a sub-action that is no llm_task, after another json_iterator has
\* written the output variable
C23_Witness ==
    /\ pc = "step_error"
    /\ dispatched # <<>>
    /\ LatestStep.type = "json_iterator"
    /\ error.text = "Unsupported action type"
    /\ "iterator_output" \in DOMAIN variables

\* ------------------------------------------------------------------------
\* write_file: what the destination holds
\* ------------------------------------------------------------------------
\* the names the step called is to write, and its destination
ToWrite == Get(Called, "to_write_variables", <<>>)

Destination == Get(Called, "output_file", args.output)

\* the values of the names, each followed by a blank line, in order
RECURSIVE EachWithBlankLine(_)
EachWithBlankLine(names) ==
    IF names = <<>> THEN <<>>
    ELSE variables[Head(names)].s \o <<"\n\n">> \o EachWithBlankLine(Tail(names))

\* C24: after write_file succeeds, the destination file holds exactly the
\* concatenation, in the order of to_write_variables, of each variable's
\* value followed by "\n\n"; nothing of the file's earlier contents remains.
C24_FileHoldsValuesInOrder ==
    pc = "returned"
        => /\ Destination \in DOMAIN files
           /\ files[Destination] = EachWithBlankLine(ToWrite)

\* two values have been written over a file that held a text, in the order
\* of the list, which is not that of the names; the other file holds its
\* text still
C24_Witness ==
    /\ pc = "returned"
    /\ ToWrite = <<"b", "a">>
    /\ Destination = "out.md"
    /\ files["out.md"] = <<"Y", "\n\n", "X", "\n\n">>
    /\ PlainArgs.output \in DOMAIN files
    /\ files[PlainArgs.output] = <<"old">>

\* a name to write is absent from the store or bound to null
SomeNotSet ==
    \E i \in DOMAIN ToWrite :
        ToWrite[i] \notin DOMAIN variables \/ variables[ToWrite[i]] = None

\* C25: write_file raises an error when any name in to_write_variables is
\* absent from the store or bound to null, and in that case the destination
\* file is neither opened, truncated nor written: its earlier contents are
\* unchanged.
C25_MissingLeavesFile ==
    [][(pc = "call" /\ SomeNotSet)
           => /\ pc' = "raised"
              /\ error'.exception = "ValueError"
              /\ files' = files]_vars

\* the second name is bound to null, the first is a text, the destination
\* holds a text and could have been opened: the call has raised and the
\* text is there
C25_Witness ==
    /\ pc = "raised"
    /\ ToWrite = <<"a", "b">>
    /\ variables = [a |-> Txt(<<"X">>), b |-> None]
    /\ opened
    /\ Destination = "out.md"
    /\ files = OldFiles

\* ------------------------------------------------------------------------
\* validate_config: what it leaves alone
\* ------------------------------------------------------------------------
\* C26: validate_config has no effect besides its boolean result and
\* printed diagnostics: it leaves the config, the module-level variable
\* store and the set of executed steps unchanged, and it invokes no step
\* executor.
C26_ValidationOnlyJudges ==
    [][(pc = "start" /\ config.is_dict)
           => /\ config' = config
              /\ variables' = variables
              /\ executed_steps' = executed_steps
              /\ dispatched' = dispatched
              /\ requests' = requests
              /\ files' = files]_vars

\* the validator has gone through a first step and has ended at the
\* variables of the second: the store is empty and nothing has been run
C26_Witness ==
    /\ pc = "exit1"
    /\ valid.reason = "variable"
    /\ valid.at = 2
    /\ variables = EmptyStore
    /\ dispatched = <<>>

\* ------------------------------------------------------------------------
\* The execution loop on the workflows that the validator accepts
\* ------------------------------------------------------------------------
\* validate_config accepts the step list that the loop runs
Accepted == validate_config(ListConfig(steps)).ok

\* the steps dispatched so far are the first steps of the list, in the
\* order of the list
InListOrder == \A k \in DOMAIN dispatched : dispatched[k].at = k

\* C28: for every workflow that validate_config accepts and executors that
\* do not fail, the execution loop finishes in exactly one pass over the
\* step list, dispatches the steps in list order, and never reaches the
\* circular-or-missing-dependency error.
C28_AcceptedRunsInOnePass ==
    (Accepted /\ AllReturned)
        => /\ pc # "deadlock"
           /\ passes <= 1
           /\ InListOrder
           /\ pc = "success" => (passes = 1 /\ Len(dispatched) = Len(steps))

\* an accepted list of three steps, the last with two dependencies, has
\* been run to its end in one pass
C28_Witness ==
    /\ pc = "success"
    /\ Accepted
    /\ Len(steps) = 3
    /\ steps[3].dependencies.items = {"A", "B"}
    /\ AllReturned
    /\ passes = 1

\* ------------------------------------------------------------------------
\* translate_block: retries and what it returns
\* ------------------------------------------------------------------------
\* what the latest call of the API has done
LatestCall == api_calls[Len(api_calls)]

\* every call of the API but the latest has raised an APIError
RetriedOnlyApiErrors ==
    \A k \in 1..(Len(api_calls) - 1) : api_calls[k] = "api_error"

C30_Inv ==
    /\ pc # "raised"
    /\ Len(api_calls) <= RetryAttempts(config) + 1
    /\ RetriedOnlyApiErrors
    /\ Len(slept) = (IF pc = "translate" \/ api_calls = <<>>
                     THEN Len(api_calls) ELSE Len(api_calls) - 1)
    /\ \A k \in DOMAIN slept : slept[k] = 2 ^ (k - 1)
    /\ (pc = "returned" /\ api_calls # <<>> /\ LatestCall = "api_error")
           => /\ Len(api_calls) = RetryAttempts(config) + 1
              /\ translated = block.text
    /\ (pc = "returned" /\ api_calls # <<>> /\ LatestCall = "exception")
           => translated = block.text

\* C30: translate_block never raises and always terminates: when the API
\* keeps failing with an API error it calls the API at most
\* retry_attempts + 1 times for the block, waiting 2^k seconds before retry
\* number k + 1 (k counted from 0), and then returns the block's original
\* text; on any other exception it returns the original text without
\* retrying.
C30_RetriesThenGivesUp == [](C30_Inv) /\ <>(pc = "returned")

\* with two retry attempts the API has raised an APIError three times: the
\* call has slept one second, then two, and has returned the text of the
\* block
C30_Witness ==
    /\ pc = "returned"
    /\ RetryAttempts(config) = 2
    /\ api_calls = <<"api_error", "api_error", "api_error">>
    /\ slept = <<1, 2>>
    /\ translated = block.text
    /\ block.type = "paragraph"

\* ------------------------------------------------------------------------
\* process_file: the order of the output
\* ------------------------------------------------------------------------
\* what the job of a block gives to the document: what its worker has
\* returned, or the text of the block when the worker has raised
Contribution(i) ==
    IF futures[i].state = "raised" THEN blocks[i].text ELSE futures[i].text

\* the contributions of the first k blocks, a blank line between two
RECURSIVE InBlockOrder(_)
InBlockOrder(k) ==
    IF k = 0 THEN <<>>
    ELSE IF k = 1 THEN Contribution(1)
    ELSE InBlockOrder(k - 1) \o <<"\n\n">> \o Contribution(k)

\* C31: in process_file, whatever the order in which the workers end, the
\* result of every block that as_completed has yielded stands at the index
\* of that block, no slot is empty when the document is reassembled, and
\* the output is the translations joined by a blank line in the order of
\* the blocks, the text of the block standing for a worker that has failed.
C31_OutputInBlockOrder ==
    /\ pc # "raised"
    /\ \A i \in Yielded : results[i] = Txt(Contribution(i))
    /\ pc = "reassembled"
           => /\ \A i \in DOMAIN blocks : results[i] # None
              /\ translated_doc = InBlockOrder(Len(blocks))
              /\ files[OutputPath] = translated_doc

\* the job of the last of three blocks was yielded first and the job of
\* the first block last, one worker has raised, and the document is
\* reassembled
C31_Witness ==
    /\ pc = "reassembled"
    /\ Len(blocks) = 3
    /\ futures[3].yielded = 1
    /\ futures[1].yielded = 3
    /\ futures[2].state = "raised"
    /\ futures[1].text = <<"T", "r">>
    /\ blocks[2].text = <<"a", " ", "b">>
    /\ futures[3].text = <<"T">>

\* ------------------------------------------------------------------------
\* transcribe.py: the output files of the threads
\* ------------------------------------------------------------------------
\* the input files for which a thread has been started
Started == {i \in DOMAIN threads : threads[i].at # "skipped"}

\* the worker is between its check of the output file and the end of its
\* write
AtOutput(i) == threads[i].at \in {"check", "prompt", "write"}

\* C32 as claimed: in main() of transcribe.py distinct input files are
\* given distinct output paths, so no two workers that run at the same time
\* ever check, prompt for or write the same output file.
C32_DistinctOutputPaths ==
    \A i, j \in Started :
        i # j => /\ threads[i].output_path # threads[j].output_path
                 /\ ~(/\ AtOutput(i)
                      /\ AtOutput(j)
                      /\ threads[i].output_path = threads[j].output_path)
====
